---- MODULE Spec2Model ----
(***************************************************************************)
(* Model of scripts/generate_excel.py (the workbook generator) and         *)
(* scripts/recalc.py (the workbook validator).                             *)
(*                                                                         *)
(* A workbook is a list of sheet names plus, per sheet, its cells (value,  *)
(* font colour, fill colour), its data validations, its conditional        *)
(* formats, its frozen pane and its tab colour.  Column widths, row        *)
(* heights, alignment, borders, and font size/weight are presentation      *)
(* attributes that neither script ever reads back; they are not modelled.  *)
(* TLA+ strings are ASCII: the few non-ASCII characters of the source's    *)
(* literals (euro sign, dashes, bullet, warning sign) are transliterated.  *)
(***************************************************************************)
EXTENDS Integers, Sequences, FiniteSets, TLC

(***************************************************************************)
(* Python values held by cells: None, int, float (kept in hundredths), str *)
(***************************************************************************)
VNone == [t |-> "none"]
VInt(n) == [t |-> "int", n |-> n]
VFloat(w, h) == [t |-> "float", h |-> 100 * w + h]
VStr(s) == [t |-> "str", s |-> s]

RECURSIVE For(_, _, _, _)
\* for i in range(lo, hi + 1): acc = Op(acc, i)
\* (the comparison makes the evaluator finish one iteration before it starts
\* the next, as the loop does; it is always true)
For(Op(_, _), acc, lo, hi) ==
    IF lo > hi THEN acc
    ELSE LET next == Op(acc, lo)
         IN IF next = next THEN For(Op, next, lo + 1, hi) ELSE acc

DigitChars == "0123456789"
Digit(d) == SubSeq(DigitChars, d + 1, d + 1)

RECURSIVE NatStr(_)
NatStr(n) == IF n < 10 THEN Digit(n) ELSE NatStr(n \div 10) \o Digit(n % 10)

\* str(n) / f"{n}" of a Python int
IntStr(n) == IF n < 0 THEN "-" \o NatStr(0 - n) ELSE NatStr(n)

\* str(x) of a Python float with at most two decimals (shortest repr)
FloatStr(h) ==
    LET a == IF h < 0 THEN 0 - h ELSE h
        frac == a % 100
        fs == IF frac % 10 = 0 THEN Digit(frac \div 10)
              ELSE Digit(frac \div 10) \o Digit(frac % 10)
    IN (IF h < 0 THEN "-" ELSE "") \o NatStr(a \div 100) \o "." \o fs

\* str(val)
py_str(v) ==
    CASE v.t = "str" -> v.s
      [] v.t = "int" -> IntStr(v.n)
      [] v.t = "float" -> FloatStr(v.h)
      [] v.t = "none" -> "None"

\* Python truthiness of a cell value
py_truthy(v) ==
    CASE v.t = "str" -> v.s # ""
      [] v.t = "int" -> v.n # 0
      [] v.t = "float" -> v.h # 0
      [] v.t = "none" -> FALSE

Whitespace == {" ", "\t", "\n", "\r", "\f"}

RECURSIVE lstrip(_)
lstrip(s) ==
    IF Len(s) > 0 /\ SubSeq(s, 1, 1) \in Whitespace
    THEN lstrip(SubSeq(s, 2, Len(s))) ELSE s

RECURSIVE rstrip(_)
rstrip(s) ==
    IF Len(s) > 0 /\ SubSeq(s, Len(s), Len(s)) \in Whitespace
    THEN rstrip(SubSeq(s, 1, Len(s) - 1)) ELSE s

\* str.strip()
strip(s) == rstrip(lstrip(s))

\* str.startswith(p)
startswith(s, p) == Len(s) >= Len(p) /\ SubSeq(s, 1, Len(p)) = p

LowerChars == "abcdefghijklmnopqrstuvwxyz"
UpperChars == "ABCDEFGHIJKLMNOPQRSTUVWXYZ"
UpperMap == [ch \in {SubSeq(LowerChars, i, i) : i \in 1..26} |->
               LET i == CHOOSE j \in 1..26 : SubSeq(LowerChars, j, j) = ch
               IN SubSeq(UpperChars, i, i)]
UpperChar(ch) == IF ch \in DOMAIN UpperMap THEN UpperMap[ch] ELSE ch

RECURSIVE UpperFrom(_, _)
UpperFrom(s, i) ==
    IF i > Len(s) THEN ""
    ELSE UpperChar(SubSeq(s, i, i)) \o UpperFrom(s, i + 1)

\* str.upper()
upper(s) == UpperFrom(s, 1)

\* openpyxl.utils.get_column_letter
get_column_letter(col) ==
    IF col <= 26 THEN SubSeq(UpperChars, col, col)
    ELSE SubSeq(UpperChars, (col - 1) \div 26, (col - 1) \div 26)
         \o SubSeq(UpperChars, ((col - 1) % 26) + 1, ((col - 1) % 26) + 1)

\* a cell's coordinate, e.g. "K2"
coordinate(r, c) == get_column_letter(c) \o IntStr(r)

(***************************************************************************)
(* generate_excel.py: colours and style helpers                            *)
(***************************************************************************)
C_ROW_ODD == "0D1014"
C_ROW_EVEN == "0F1318"
C_HEADER_BG == "131820"
C_HEADER_TXT == "7A776F"
C_INPUT_TXT == "4A8BD4"
C_FORMULA_TXT == "2ECC8A"
C_BREACH_BG == "E05555"
C_BORDER_HDR == "E8622A"
C_WHITE == "FFFFFF"

TAB_COLORS == << "4A8BD4", "E8622A", "2ECC8A", "E05555", "7A776F",
                 "8B4ACA", "4A6BD4", "D4A44A", "D44A4A", "4AD4A4" >>

\* a cell nobody has styled or written
EmptyCell == [value |-> VNone, font |-> "default", fill |-> "none"]

\* Workbook.create_sheet's fresh worksheet
NewSheet(title) ==
    [title |-> title, cells |-> << >>, validations |-> << >>,
     conditional_formatting |-> << >>, freeze_panes |-> "", tabColor |-> ""]

\* ws.cell(row, column) read
GetCell(ws, r, c) ==
    IF <<r, c>> \in DOMAIN ws.cells THEN ws.cells[<<r, c>>] ELSE EmptyCell

\* ws.cell(row, column) followed by attribute assignments
SetCell(ws, r, c, cell) ==
    [ws EXCEPT !.cells = [rc \in (DOMAIN ws.cells) \cup {<<r, c>>} |->
                            IF rc = <<r, c>> THEN cell ELSE ws.cells[rc]]]

SetValue(ws, r, c, v) == SetCell(ws, r, c, [GetCell(ws, r, c) EXCEPT !.value = v])
SetFont(ws, r, c, f) == SetCell(ws, r, c, [GetCell(ws, r, c) EXCEPT !.font = f])
SetFill(ws, r, c, f) == SetCell(ws, r, c, [GetCell(ws, r, c) EXCEPT !.fill = f])

apply_header_style(ws, r, c, label) ==
    SetCell(ws, r, c, [value |-> VStr(label), font |-> C_HEADER_TXT,
                       fill |-> C_HEADER_BG])

apply_input_style(ws, r, c, value) ==
    LET old == GetCell(ws, r, c)
    IN SetCell(ws, r, c, [old EXCEPT !.value = IF value # VNone THEN value ELSE @,
                                     !.font = C_INPUT_TXT])

\* a formula written with the input font
apply_formula_style_as_input(ws, r, c, formula) ==
    SetCell(ws, r, c, [GetCell(ws, r, c) EXCEPT !.value = VStr(formula),
                                                !.font = C_INPUT_TXT])

apply_formula_style(ws, r, c, formula) ==
    SetCell(ws, r, c, [GetCell(ws, r, c) EXCEPT !.value = VStr(formula),
                                                !.font = C_FORMULA_TXT])

row_fill(row_idx) == IF row_idx % 2 = 1 THEN C_ROW_ODD ELSE C_ROW_EVEN

write_headers(ws, headers, row) ==
    For(LAMBDA w, col : apply_header_style(w, row, col, headers[col]),
        ws, 1, Len(headers))

set_row_bg(ws, row, num_cols) ==
    For(LAMBDA w, col : SetFill(w, row, col, row_fill(row)), ws, 1, num_cols)

freeze_and_tab(ws, tab_color, freeze) ==
    [ws EXCEPT !.freeze_panes = freeze, !.tabColor = tab_color]

\* a dropdown whose range stops one row short of end_row
add_dropdown_short(ws, col_letter, start_row, end_row, formula1) ==
    [ws EXCEPT !.validations = Append(@,
        [type |-> "list", operator |-> "", formula1 |-> formula1, formula2 |-> "",
         sqref |-> col_letter \o IntStr(start_row) \o ":"
                   \o col_letter \o IntStr(end_row - 1)])]

add_dropdown(ws, col_letter, start_row, end_row, formula1) ==
    [ws EXCEPT !.validations = Append(@,
        [type |-> "list", operator |-> "", formula1 |-> formula1, formula2 |-> "",
         sqref |-> col_letter \o IntStr(start_row) \o ":"
                   \o col_letter \o IntStr(end_row)])]

\* a section title cell: value, header-text font, header-background fill
section_title(ws, r, c, text) ==
    SetCell(ws, r, c, [value |-> VStr(text), font |-> C_HEADER_TXT,
                       fill |-> C_HEADER_BG])

\* apply_input_style over a row of values starting at column c0
input_row(ws, r, c0, vals) ==
    For(LAMBDA w, j : apply_input_style(w, r, c0 + j - 1, vals[j]),
        ws, 1, Len(vals))

(***************************************************************************)
(* generate_excel.py: the hardcoded tables, one definition per literal     *)
(***************************************************************************)
\* build_portfolio: headers
portfolio_headers == << "name", "arr", "arr_gr", "nav", "nav_pct", "moic",
    "burn", "gm", "nrr", "ev_arr", "ev_arr_entry", "valuation", "sector",
    "stage", "geo", "status", "funds", "esg_e", "esg_s", "esg_g", "lever" >>

\* build_portfolio: companies
companies == <<
    <<VStr("Q-CTRL"), VInt(18), VInt(120), VInt(82), VFloat(2, 30), VFloat(1, 20), VInt(75),
     VInt(145), VFloat(12, 0), VInt(396), VStr("DeepTech/Quantum"), VStr("Series D"),
     VStr("AU/US"), VStr("Star"), VStr("Fund V"), VInt(72), VInt(80), VInt(68), VFloat(3,
     20)>>,
    <<VStr("Multiverse"), VInt(48), VInt(65), VInt(55), VFloat(2, 0), VFloat(1, 40),
     VInt(66), VInt(122), VFloat(6, 20), VInt(408), VStr("EdTech"), VStr("Series D"),
     VStr("UK"), VStr("Core"), VStr("Fund IV"), VInt(68), VInt(71), VInt(66), VFloat(2,
     80)>>,
    <<VStr("d-Matrix"), VInt(5), VInt(200), VInt(38), VFloat(1, 70), VFloat(4, 20),
     VInt(45), VNone, VFloat(22, 0), VInt(220), VStr("AI Hardware"), VStr("Series B"),
     VStr("US"), VStr("High Growth"), VStr("Fund V"), VInt(58), VInt(62), VInt(55),
     VFloat(4, 10)>>,
    <<VStr("Ledger"), VInt(85), VInt(35), VInt(32), VFloat(1, 60), VFloat(0, 60), VInt(72),
     VInt(118), VFloat(9, 50), VInt(1530), VStr("FinTech/Crypto"), VStr("Series D"),
     VStr("FR"), VStr("Core"), VStr("Fund III"), VInt(70), VInt(74), VInt(69), VFloat(2,
     10)>>,
    <<VStr("Wayflyer"), VInt(42), VInt(55), VInt(40), VFloat(1, 40), VFloat(1, 10),
     VInt(68), VInt(115), VFloat(5, 80), VInt(298), VStr("FinTech"), VStr("Series C"),
     VStr("IE/US"), VStr("Core"), VStr("Fund V"), VInt(64), VInt(68), VInt(62), VFloat(2,
     90)>>,
    <<VStr("Matillion"), VInt(62), VInt(40), VInt(32), VFloat(1, 50), VFloat(1, 30),
     VInt(70), VInt(130), VFloat(7, 20), VInt(583), VStr("Software"), VStr("Series E"),
     VStr("UK/US"), VStr("Core"), VStr("Fund IV"), VInt(66), VInt(70), VInt(65), VFloat(2,
     50)>>,
    <<VStr("Sanity"), VInt(24), VInt(38), VInt(18), VFloat(1, 50), VFloat(1, 80), VInt(71),
     VInt(108), VFloat(7, 50), VInt(228), VStr("Software"), VStr("Series C"), VStr("NO"),
     VStr("Watch"), VStr("Fund V"), VInt(60), VInt(64), VInt(58), VFloat(3, 0)>>,
    <<VStr("Headway"), VInt(15), VInt(80), VInt(14), VFloat(1, 10), VFloat(2, 10), VInt(62),
     VInt(95), VFloat(5, 50), VInt(108), VStr("EdTech"), VStr("Series B"), VStr("UA/US"),
     VStr("Watch"), VStr("Fund VI"), VInt(55), VInt(60), VInt(52), VFloat(3, 50)>>,
    <<VStr("Booksy"), VInt(38), VInt(42), VInt(32), VFloat(1, 30), VFloat(0, 70), VInt(71),
     VInt(115), VFloat(6, 80), VInt(334), VStr("Software"), VStr("Series D"), VStr("PL/US"),
     VStr("Core"), VStr("Fund V"), VInt(62), VInt(66), VInt(61), VFloat(2, 70)>>,
    <<VStr("Quantexa"), VInt(55), VInt(68), VInt(58), VFloat(2, 10), VFloat(1, 50),
     VInt(68), VInt(125), VFloat(9, 80), VInt(781), VStr("AI/Data"), VStr("Series E"),
     VStr("UK"), VStr("Star"), VStr("Fund IV"), VInt(71), VInt(75), VInt(70), VFloat(2,
     60)>> >>

\* build_funds: main_hdrs
main_hdrs == << "fund", "vintage", "size_m", "irr", "tvpi", "dpi", "nav_m",
    "realized_m" >>

\* build_funds: funds_data
funds_data == <<
    <<VStr("Fund I"), VInt(2008), VStr("EUR30M"), VFloat(22, 10), VFloat(3, 10), VFloat(3,
     10), VInt(0), VInt(93)>>,
    <<VStr("Fund II"), VInt(2011), VStr("EUR80M"), VFloat(19, 80), VFloat(2, 70), VFloat(2,
     70), VInt(0), VInt(200)>>,
    <<VStr("Fund III"), VInt(2013), VStr("EUR150M"), VFloat(17, 20), VFloat(2, 40),
     VFloat(1, 90), VInt(75), VInt(285)>>,
    <<VStr("Fund IV"), VInt(2018), VStr("EUR220M"), VFloat(16, 50), VFloat(2, 10), VFloat(0,
     80), VInt(256), VInt(176)>>,
    <<VStr("Fund V"), VInt(2020), VStr("EUR353M"), VFloat(14, 80), VFloat(1, 70), VFloat(0,
     30), VInt(420), VInt(106)>>,
    <<VStr("Fund VI"), VInt(2022), VStr("$431M"), VFloat(12, 40), VFloat(1, 40), VFloat(0,
     0), VInt(294), VInt(0)>> >>

\* build_funds: quarters
quarters == << "Q2'22", "Q3'22", "Q4'22", "Q1'23", "Q2'23", "Q3'23", "Q4'23",
    "Q1'24", "Q2'24", "Q3'24", "Q4'24", "Q1'25" >>

\* build_funds: traj_data
traj_data == <<
    <<VStr("Fund III"), <<VFloat(21, 20), VFloat(20, 80), VFloat(20, 10), VFloat(19, 50),
     VFloat(19, 0), VFloat(18, 60), VFloat(18, 20), VFloat(17, 80), VFloat(17, 50),
     VFloat(17, 30), VFloat(17, 20), VFloat(17, 20)>>>>,
    <<VStr("Fund IV"), <<VFloat(12, 0), VFloat(13, 20), VFloat(14, 10), VFloat(15, 0),
     VFloat(15, 80), VFloat(16, 20), VFloat(16, 50), VFloat(16, 50), VFloat(16, 40),
     VFloat(16, 50), VFloat(16, 50), VFloat(16, 50)>>>>,
    <<VStr("Fund V"), <<VFloat(5, 10), VFloat(6, 80), VFloat(8, 20), VFloat(9, 50),
     VFloat(10, 80), VFloat(12, 0), VFloat(12, 90), VFloat(13, 60), VFloat(14, 20),
     VFloat(14, 60), VFloat(14, 80), VFloat(14, 80)>>>>,
    <<VStr("Fund VI"), <<VFloat(0, 0), VFloat(0, 0), VFloat(2, 10), VFloat(4, 50), VFloat(6,
     20), VFloat(7, 80), VFloat(8, 90), VFloat(10, 20), VFloat(10, 80), VFloat(11, 20),
     VFloat(11, 80), VFloat(12, 40)>>>> >>

\* build_funds: pme_hdrs
pme_hdrs == << "benchmark", "Fund I", "Fund II", "Fund III", "Fund IV",
    "Fund V", "Fund VI" >>

\* build_funds: pme_data
pme_data == <<
    <<VStr("vs MSCI World"), <<VFloat(1, 62), VFloat(1, 47), VFloat(1, 38), VFloat(1, 29),
     VFloat(1, 18), VFloat(1, 12)>>>>,
    <<VStr("vs NASDAQ"), <<VFloat(1, 38), VFloat(1, 25), VFloat(1, 18), VFloat(1, 8),
     VFloat(0, 98), VFloat(1, 2)>>>> >>

\* build_lps: headers
lps_headers == << "name", "city", "type", "commit_m", "called_m", "dist_m",
    "nav_m", "irr", "tvpi", "unfunded_m" >>

\* build_lps: lps
lps == <<
    <<VStr("Schroder Adveq"), VStr("Zurich"), VStr("Fund of Funds"), VInt(65), VFloat(44,
     20), VFloat(8, 80), VInt(52), VFloat(14, 10), VFloat(1, 38)>>,
    <<VStr("APG"), VStr("Amsterdam"), VStr("Pension"), VInt(50), VFloat(34, 0), VFloat(6,
     20), VInt(41), VFloat(13, 80), VFloat(1, 39)>>,
    <<VStr("Neuberger Berman"), VStr("New York"), VStr("FoF"), VInt(45), VFloat(30, 60),
     VFloat(5, 40), VInt(36), VFloat(13, 50), VFloat(1, 35)>>,
    <<VStr("British Business Bk"), VStr("Sheffield"), VStr("Gov"), VInt(40), VFloat(27, 20),
     VFloat(4, 80), VInt(32), VFloat(12, 90), VFloat(1, 35)>>,
    <<VStr("EIF"), VStr("Luxembourg"), VStr("DFI"), VInt(35), VFloat(23, 80), VFloat(3, 90),
     VInt(27), VFloat(13, 20), VFloat(1, 30)>>,
    <<VStr("Adams Street"), VStr("Chicago"), VStr("FoF"), VInt(30), VFloat(20, 40),
     VFloat(3, 20), VInt(24), VFloat(12, 80), VFloat(1, 33)>>,
    <<VStr("Isomer Capital"), VStr("London"), VStr("FoF"), VInt(25), VFloat(17, 0),
     VFloat(2, 50), VFloat(19, 50), VFloat(12, 60), VFloat(1, 29)>>,
    <<VStr("GP Commitment"), VStr("London"), VStr("GP"), VInt(20), VFloat(13, 60), VFloat(2,
     10), VInt(16), VFloat(14, 40), VFloat(1, 33)>> >>

\* build_exit_pipeline: headers
exit_headers == << "name", "type", "advisor", "timing", "bear", "base",
    "bull", "bear_prob", "base_prob", "bull_prob", "pwav_proceeds" >>

\* build_exit_pipeline: exits
exits == <<
    <<VStr("Q-CTRL"), VStr("Secondary"), VStr("Lazard"), VStr("Q3 2025"), VInt(15),
     VInt(18), VInt(22), VFloat(0, 15), VFloat(0, 55), VFloat(0, 30)>>,
    <<VStr("Matillion"), VStr("IPO"), VStr("GS/MS"), VStr("Q4 2025"), VInt(22), VInt(32),
     VInt(48), VFloat(0, 20), VFloat(0, 50), VFloat(0, 30)>>,
    <<VStr("Quantexa"), VStr("Strategic"), VStr("Internal"), VStr("Q1 2026"), VInt(32),
     VInt(46), VInt(62), VFloat(0, 20), VFloat(0, 50), VFloat(0, 30)>>,
    <<VStr("Ledger"), VStr("M&A"), VStr("Thoma Bravo"), VStr("Q2 2026"), VInt(38), VInt(55),
     VInt(72), VFloat(0, 15), VFloat(0, 55), VFloat(0, 30)>>,
    <<VStr("Wayflyer"), VStr("IPO"), VStr("TBD"), VStr("2027"), VInt(22), VInt(36),
     VInt(52), VFloat(0, 25), VFloat(0, 45), VFloat(0, 30)>> >>

\* build_pipeline: headers
pipeline_headers == << "name", "sector", "stage", "arr_m", "arr_gr_pct",
    "valuation_m", "ev_arr", "confidence" >>

\* build_pipeline: pipeline
pipeline == <<
    <<VStr("Tractable"), VStr("AI Insurance"), VStr("Diligence"), VInt(45), VInt(65),
     VInt(540), VNone, VStr("High")>>,
    <<VStr("Corelight"), VStr("Cybersecurity"), VStr("Diligence"), VInt(55), VInt(50),
     VInt(620), VNone, VStr("High")>>,
    <<VStr("Monite"), VStr("B2B FinTech"), VStr("Diligence"), VInt(12), VInt(180), VInt(95),
     VNone, VStr("Medium")>>,
    <<VStr("Rasa"), VStr("Convo AI"), VStr("Diligence"), VInt(18), VInt(95), VInt(140),
     VNone, VStr("Medium")>>,
    <<VStr("Sertis"), VStr("AI/Data"), VStr("IC Ready"), VInt(22), VInt(110), VInt(175),
     VNone, VStr("High")>>,
    <<VStr("Form3"), VStr("Payments Infra"), VStr("IC Ready"), VInt(28), VInt(75),
     VInt(225), VNone, VStr("High")>>,
    <<VStr("Synthesia"), VStr("AI Video"), VStr("Tracking"), VInt(32), VInt(85), VInt(280),
     VNone, VStr("Medium")>>,
    <<VStr("Cogni"), VStr("Neo-banking"), VStr("Tracking"), VInt(8), VInt(200), VInt(65),
     VNone, VStr("Low")>>,
    <<VStr("Proxima"), VStr("eCommerce AI"), VStr("Tracking"), VInt(14), VInt(90), VInt(88),
     VNone, VStr("Medium")>>,
    <<VStr("SafetyWing"), VStr("InsurTech"), VStr("Tracking"), VInt(22), VInt(55),
     VInt(140), VNone, VStr("Medium")>>,
    <<VStr("Supermetrics"), VStr("Marketing Tech"), VStr("Tracking"), VInt(42), VInt(25),
     VInt(310), VNone, VStr("Low")>>,
    <<VStr("Tessian"), VStr("Email Security"), VStr("Tracking"), VInt(28), VInt(40),
     VInt(195), VNone, VStr("Medium")>> >>

\* build_macro_scenarios: headers
macro_headers == << "scenario", "arr_gr", "gm_delta", "nrr", "ev_mult_delta",
    "dr", "timing_mo", "rates_bp", "fx_pct", "writeoff_pct", "probability" >>

\* build_macro_scenarios: scenarios
scenarios == <<
    <<VStr("Base"), VInt(55), VInt(0), VInt(118), VInt(0), VInt(8), VInt(0), VInt(0),
     VInt(0), VInt(0), VInt(30)>>,
    <<VStr("Soft Landing"), VInt(75), VInt(3), VInt(128), VInt(15), VInt(8), VInt(-3),
     VInt(-50), VInt(3), VInt(0), VInt(25)>>,
    <<VStr("Mild Recession"), VInt(30), VInt(-5), VInt(105), VInt(-20), VInt(10), VInt(6),
     VInt(100), VInt(-5), VInt(5), VInt(20)>>,
    <<VStr("Deep Recession"), VInt(-10), VInt(-12), VInt(88), VInt(-40), VInt(13), VInt(18),
     VInt(200), VInt(-10), VInt(15), VInt(10)>>,
    <<VStr("Tech Correction"), VInt(35), VInt(-2), VInt(108), VInt(-45), VInt(12), VInt(12),
     VInt(0), VInt(0), VInt(8), VInt(10)>>,
    <<VStr("AI Acceleration"), VInt(95), VInt(5), VInt(138), VInt(30), VInt(8), VInt(-6),
     VInt(0), VInt(5), VInt(0), VInt(5)>> >>

\* build_capital_calls: headers
capital_headers == << "quarter", "calls_m", "dist_m", "nav_m",
    "cumulative_calls", "cumulative_dist", "DPI" >>

\* build_capital_calls: quarters_data
quarters_data == <<
    <<VStr("Q1'23"), VInt(95), VInt(0), VInt(90)>>,
    <<VStr("Q2'23"), VInt(28), VInt(0), VInt(118)>>,
    <<VStr("Q3'23"), VInt(22), VInt(0), VInt(142)>>,
    <<VStr("Q4'23"), VInt(30), VInt(2), VInt(168)>>,
    <<VStr("Q1'24"), VInt(25), VInt(3), VInt(198)>>,
    <<VStr("Q2'24"), VInt(18), VInt(4), VInt(224)>>,
    <<VStr("Q3'24"), VInt(22), VInt(5), VInt(248)>>,
    <<VStr("Q4'24"), VInt(28), VInt(8), VInt(268)>>,
    <<VStr("Q1'25"), VInt(16), VInt(15), VInt(294)>> >>

\* build_benchmarks: irr_hdrs
irr_hdrs == << "metric", "Fund I", "Fund II", "Fund III", "Fund IV",
    "Fund V", "Fund VI" >>

\* build_benchmarks: irr_data
irr_data == <<
    <<VStr("Top Quartile IRR %"), <<VInt(28), VInt(25), VInt(22), VInt(20), VInt(18),
     VInt(16)>>>>,
    <<VStr("Median IRR %"), <<VInt(22), VInt(20), VInt(17), VInt(15), VInt(13), VInt(11)>>>> >>

\* build_benchmarks: gp_irr
gp_irr == <<
    VFloat(22, 10),
    VFloat(19, 80),
    VFloat(17, 20),
    VFloat(16, 50),
    VFloat(14, 80),
    VFloat(12, 40) >>

\* build_benchmarks: fx_hdrs
fx_hdrs == << "currency", "exposure_usdm", "hedge_status", "hedge_pct" >>

\* build_benchmarks: fx_data
fx_data == <<
    <<VStr("GBP"), VInt(77), VStr("Unhedged"), VInt(0)>>,
    <<VStr("EUR"), VInt(32), VStr("40% Hedged"), VInt(40)>>,
    <<VStr("AUD"), VInt(82), VStr("Unhedged"), VInt(0)>>,
    <<VStr("ILS"), VInt(21), VStr("Unhedged"), VInt(0)>> >>

\* build_watchlist: headers
watchlist_headers == << "name", "flag", "threshold", "current_value",
    "status" >>

\* build_instructions: lines
lines == <<
    <<"GPBullhound_LiveData.xlsx - Setup & Publishing Guide", TRUE, 14>>,
    <<"", FALSE, 10>>,
    <<"1. LIVE DATA FEED - Publishing Sheet 1 (Portfolio) as CSV", TRUE, 12>>,
    <<"   a. Open this workbook in Excel for the web (Office 365).", FALSE, 10>>,
    <<"   b. Go to File > Save As > Download a Copy - or use the Share menu.", FALSE, 10>>,
    <<"   c. To publish as CSV: File > Export > Change File Type > CSV.", FALSE, 10>>,
    <<"   d. Save to OneDrive / SharePoint for continuous sync.", FALSE, 10>>,
    <<"   e. Copy the share link (view-only) for dashboard consumption.", FALSE, 10>>,
    <<"", FALSE, 10>>,
    <<"2. CONNECTING TO THE BULLHOUND DASHBOARD", TRUE, 12>>,
    <<"   a. In bullhound_dashboard.html, update DATA_CSV_URL constant", FALSE, 10>>,
    <<"      to the published CSV share link from step 1e.", FALSE, 10>>,
    <<"   b. The dashboard auto-refreshes every 5 minutes via fetch().", FALSE, 10>>,
    <<"   c. Ensure CORS headers are set on the CSV host if self-hosted.", FALSE, 10>>,
    <<"", FALSE, 10>>,
    <<"3. FORMULA COLOUR CONVENTION", TRUE, 12>>,
    <<"   Blue  (#4A8BD4) - manually entered input values.", FALSE, 10>>,
    <<"   Green (#2ECC8A) - formula-derived values (do NOT overwrite).", FALSE, 10>>,
    <<"   Red   (#E05555) - BREACH cells requiring immediate attention.", FALSE, 10>>,
    <<"", FALSE, 10>>,
    <<"4. DATA VALIDATION", TRUE, 12>>,
    <<"   * Portfolio!P  - status  : Star | Core | High Growth | Watch", FALSE, 10>>,
    <<"   * Portfolio!N  - stage   : Series A/B/C/D/E | Pre-IPO", FALSE, 10>>,
    <<"   * Pipeline!H   - confidence: High | Medium | Low", FALSE, 10>>,
    <<"   * MacroScenarios!K - probability (must sum to 100)", FALSE, 10>>,
    <<"", FALSE, 10>>,
    <<"5. RECALCULATION", TRUE, 12>>,
    <<"   Run:  python scripts/recalc.py", FALSE, 10>>,
    <<"   This script opens the workbook, iterates all cells, and reports", FALSE, 10>>,
    <<"   any formula errors (#DIV/0!, #REF!, #N/A, etc.).", FALSE, 10>>,
    <<"", FALSE, 10>>,
    <<"6. ADDING NEW PORTFOLIO COMPANIES", TRUE, 12>>,
    <<"   a. Insert a row in Portfolio rows 2-11 (extend range to 12).", FALSE, 10>>,
    <<"   b. Update $D$2:$D$11 references in nav_pct formulas to match.", FALSE, 10>>,
    <<"   c. Re-run recalc.py to confirm zero errors.", FALSE, 10>> >>


(***************************************************************************)
(* generate_excel.py: the sheet builders.  A workbook is the sequence of   *)
(* its worksheets; wb.active is the first one.                             *)
(***************************************************************************)
\* Workbook(): one default sheet titled "Sheet"
Workbook == << NewSheet("Sheet") >>

\* wb.sheetnames
sheetnames(wb) == [i \in 1..Len(wb) |-> wb[i].title]

\* the set of titles in wb.sheetnames
SheetSet(wb) == {wb[i].title : i \in 1..Len(wb)}

\* wb[name]; defined only when name is in wb.sheetnames (else KeyError)
Sheet(wb, name) == wb[CHOOSE i \in 1..Len(wb) : wb[i].title = name]

\* wb.create_sheet(title, 0): the new sheet put in front
create_sheet_front(wb, ws) == << ws >> \o wb

\* wb.create_sheet(title) followed by the builder's writes on it
create_sheet(wb, ws) == Append(wb, ws)

\* a range that runs two rows too far, through the total row
col_range_through_total(cl, a, b) == cl \o IntStr(a) \o ":" \o cl \o IntStr(b + 2)

\* f"{cl}{a}:{cl}{b}"
col_range(cl, a, b) == cl \o IntStr(a) \o ":" \o cl \o IntStr(b)

\* Portfolio nav_pct, column E
nav_pct_formula(r) == "=IFERROR(D" \o IntStr(r) \o "/SUM($D$2:$D$11)*100,0)"

\* Portfolio ev_arr, column J
portfolio_ev_arr_formula(r) ==
    "=IFERROR(L" \o IntStr(r) \o "/B" \o IntStr(r) \o ",0)"

\* the columns the unpacked company tuple is zipped with
portfolio_input_cols ==
    << 1, 2, 3, 4, 6, 7, 8, 9, 11, 12, 13, 14, 15, 16, 17, 18, 19, 20, 21 >>

\* Portfolio summary row, one column
portfolio_summary_cell(ws, SUMR, col, NUM_ROWS) ==
    LET cl == get_column_letter(col)
        avg == "=IFERROR(AVERAGE(" \o col_range(cl, 2, NUM_ROWS + 1) \o "),0)"
    IN IF col \in {2, 4, 12}
       THEN apply_formula_style(ws, SUMR, col,
                                "=SUM(" \o col_range(cl, 2, NUM_ROWS + 1) \o ")")
       ELSE IF col \in {3, 8, 9, 10, 18, 19, 20}
       THEN apply_formula_style(ws, SUMR, col, avg)
       ELSE IF col \in {5, 6, 7, 11, 13, 14, 15, 16, 17, 21}
       THEN apply_formula_style(ws, SUMR, col, avg)
       ELSE SetValue(ws, SUMR, col, VNone)

build_portfolio(wb) ==
    LET NUM_ROWS == Len(companies)
        NUM_COLS == Len(portfolio_headers)
        SUMR == NUM_ROWS + 3
        ws0 == [wb[1] EXCEPT !.title = "Portfolio"]
        ws1 == write_headers(ws0, portfolio_headers, 1)
        data_row(w, i) ==
            LET r == i + 2
                co == companies[i + 1]
                w1 == set_row_bg(w, r, NUM_COLS)
                w2 == For(LAMBDA v, k :
                            IF co[k] = VNone
                            THEN SetValue(v, r, portfolio_input_cols[k], VNone)
                            ELSE apply_input_style(v, r, portfolio_input_cols[k], co[k]),
                          w1, 1, Len(portfolio_input_cols))
                w3 == apply_formula_style(w2, r, 5, nav_pct_formula(r))
            IN apply_formula_style(w3, r, 10, portfolio_ev_arr_formula(r))
        ws2 == For(data_row, ws1, 0, NUM_ROWS - 1)
        ws3 == apply_header_style(set_row_bg(ws2, SUMR, NUM_COLS), SUMR, 1,
                                  "TOTAL / AVG")
        ws4 == For(LAMBDA w, col : portfolio_summary_cell(w, SUMR, col, NUM_ROWS),
                   ws3, 2, NUM_COLS)
        ws5 == add_dropdown(ws4, "P", 2, 11, "\"Star,Core,High Growth,Watch\"")
        ws6 == add_dropdown(ws5, "N", 2, 11,
                   "\"Series A,Series B,Series C,Series D,Series E,Pre-IPO\"")
    IN [wb EXCEPT ![1] = freeze_and_tab(ws6, TAB_COLORS[1], "B2")]

build_funds(wb) ==
    LET traj_start_row == 10
        traj_hdrs == <<"fund">> \o quarters
        pme_start == traj_start_row + 2 + Len(traj_data) + 2
        ws0 == NewSheet("Funds")
        ws1 == write_headers(ws0, main_hdrs, 1)
        ws2 == For(LAMBDA w, i :
                     input_row(set_row_bg(w, i + 2, Len(main_hdrs)), i + 2, 1,
                               funds_data[i + 1]),
                   ws1, 0, Len(funds_data) - 1)
        ws3 == section_title(ws2, traj_start_row, 1,
                             "Quarterly IRR Trajectory (Q2'22 - Q1'25)")
        ws4 == write_headers(ws3, traj_hdrs, traj_start_row + 1)
        named_row(w, r, ncols, name, vals) ==
            input_row(apply_input_style(set_row_bg(w, r, ncols), r, 1, name),
                      r, 2, vals)
        ws5 == For(LAMBDA w, i :
                     named_row(w, traj_start_row + 2 + i, Len(traj_hdrs),
                               traj_data[i + 1][1], traj_data[i + 1][2]),
                   ws4, 0, Len(traj_data) - 1)
        ws6 == section_title(ws5, pme_start, 1, "PME Analysis")
        ws7 == write_headers(ws6, pme_hdrs, pme_start + 1)
        ws8 == For(LAMBDA w, i :
                     named_row(w, pme_start + 2 + i, Len(pme_hdrs),
                               pme_data[i + 1][1], pme_data[i + 1][2]),
                   ws7, 0, Len(pme_data) - 1)
    IN create_sheet(wb, freeze_and_tab(ws8, TAB_COLORS[2], "B2"))

\* LPs unfunded_m, column J
unfunded_formula(r) == "=IFERROR(D" \o IntStr(r) \o "-E" \o IntStr(r) \o ",0)"

\* LPs summary row, one column
lps_summary_cell(ws, SUMR, col, n) ==
    LET cl == get_column_letter(col)
    IN IF col \in {4, 5, 6, 7, 10}
       THEN apply_formula_style(ws, SUMR, col,
                                "=SUM(" \o col_range(cl, 2, n + 1) \o ")")
       ELSE IF col \in {8, 9}
       THEN apply_formula_style(ws, SUMR, col,
                "=IFERROR(AVERAGE(" \o col_range(cl, 2, n + 1) \o "),0)")
       ELSE SetValue(ws, SUMR, col, VNone)

build_lps(wb) ==
    LET SUMR == Len(lps) + 3
        ws0 == NewSheet("LPs")
        ws1 == write_headers(ws0, lps_headers, 1)
        ws2 == For(LAMBDA w, i :
                     LET r == i + 2
                         w1 == input_row(set_row_bg(w, r, Len(lps_headers)), r, 1,
                                         lps[i + 1])
                     IN apply_formula_style(w1, r, 10, unfunded_formula(r)),
                   ws1, 0, Len(lps) - 1)
        ws3 == apply_header_style(set_row_bg(ws2, SUMR, Len(lps_headers)), SUMR, 1,
                                  "TOTAL / AVG")
        ws4 == For(LAMBDA w, col : lps_summary_cell(w, SUMR, col, Len(lps)),
                   ws3, 2, Len(lps_headers))
    IN create_sheet(wb, freeze_and_tab(ws4, TAB_COLORS[3], "B2"))

\* ExitPipeline pwav_proceeds, column K
pwav_formula(r) ==
    LET n == IntStr(r)
    IN "=IFERROR(E" \o n \o "*H" \o n \o "+F" \o n \o "*I" \o n
       \o "+G" \o n \o "*J" \o n \o ",0)"

build_exit_pipeline(wb) ==
    LET SUMR == Len(exits) + 3
        ws0 == NewSheet("ExitPipeline")
        ws1 == write_headers(ws0, exit_headers, 1)
        ws2 == For(LAMBDA w, i :
                     LET r == i + 2
                         w1 == input_row(set_row_bg(w, r, Len(exit_headers)), r, 1,
                                         exits[i + 1])
                     IN apply_formula_style(w1, r, 11, pwav_formula(r)),
                   ws1, 0, Len(exits) - 1)
        ws3 == apply_header_style(set_row_bg(ws2, SUMR, Len(exit_headers)), SUMR, 1,
                                  "TOTAL")
        sum_cols == << 5, 6, 7, 11 >>
        ws4 == For(LAMBDA w, k :
                     apply_formula_style(w, SUMR, sum_cols[k],
                        "=SUM(" \o col_range(get_column_letter(sum_cols[k]), 2,
                                             Len(exits) + 1) \o ")"),
                   ws3, 1, Len(sum_cols))
        ws5 == add_dropdown(ws4, "B", 2, Len(exits) + 1,
                            "\"Secondary,IPO,Strategic,M&A\"")
    IN create_sheet(wb, freeze_and_tab(ws5, TAB_COLORS[4], "B2"))

\* a Pipeline ev_arr that divides by the confidence column, which holds text
pipeline_ev_arr_formula_by_text(r) == "=IFERROR(F" \o IntStr(r) \o "/H" \o IntStr(r) \o ",0)"

\* Pipeline ev_arr, column G
pipeline_ev_arr_formula(r) ==
    "=IFERROR(F" \o IntStr(r) \o "/D" \o IntStr(r) \o ",0)"

build_pipeline(wb) ==
    LET ws0 == NewSheet("Pipeline")
        ws1 == write_headers(ws0, pipeline_headers, 1)
        ws2 == For(LAMBDA w, i :
                     LET r == i + 2
                         co == pipeline[i + 1]
                         w1 == input_row(set_row_bg(w, r, Len(pipeline_headers)), r, 1,
                                         SubSeq(co, 1, 6))
                         w2 == apply_formula_style(w1, r, 7, pipeline_ev_arr_formula(r))
                     IN apply_input_style(w2, r, 8, co[8]),
                   ws1, 0, Len(pipeline) - 1)
        ws3 == add_dropdown(ws2, "C", 2, Len(pipeline) + 1,
                            "\"Diligence,IC Ready,Tracking,Passed\"")
        ws4 == add_dropdown(ws3, "H", 2, Len(pipeline) + 1, "\"High,Medium,Low\"")
    IN create_sheet(wb, freeze_and_tab(ws4, TAB_COLORS[5], "B2"))

\* a probability check row whose range stops one row short: =SUM(K2:K{NROWS})
probability_sum_formula_short(cl, NROWS) == "=SUM(" \o col_range(cl, 2, NROWS) \o ")"

\* MacroScenarios probability check row: =SUM(K2:K{NROWS+1})
probability_sum_formula(cl, NROWS) == "=SUM(" \o col_range(cl, 2, NROWS + 1) \o ")"

\* MacroScenarios probability validation, 0..100 over K2:K{NROWS+1}
probability_validation(NROWS) ==
    [type |-> "decimal", operator |-> "between", formula1 |-> "0",
     formula2 |-> "100", sqref |-> "K2:K" \o IntStr(NROWS + 1)]

build_macro_scenarios(wb) ==
    LET NROWS == Len(scenarios)
        sumr == NROWS + 3
        note_row == NROWS + 2
        cl == get_column_letter(Len(macro_headers))
        ws0 == NewSheet("MacroScenarios")
        ws1 == write_headers(ws0, macro_headers, 1)
        ws2 == For(LAMBDA w, i :
                     input_row(set_row_bg(w, i + 2, Len(macro_headers)), i + 2, 1,
                               scenarios[i + 1]),
                   ws1, 0, NROWS - 1)
        ws3 == apply_header_style(set_row_bg(ws2, sumr, Len(macro_headers)), sumr, 1,
                                  "Probability Sum")
        ws4 == apply_formula_style(ws3, sumr, Len(macro_headers),
                                   probability_sum_formula(cl, NROWS))
        ws5 == [ws4 EXCEPT !.validations = Append(@, probability_validation(NROWS))]
        ws6 == SetCell(ws5, note_row, 1,
                       [value |-> VStr("(!) Probabilities must sum to 100"),
                        font |-> C_BREACH_BG, fill |-> C_HEADER_BG])
    IN create_sheet(wb, freeze_and_tab(ws6, TAB_COLORS[6], "B2"))

\* a running sum of calls that stops one row above its own
cumulative_calls_formula_lagging(r) == "=SUM(B$3:B" \o IntStr(r - 1) \o ")"

\* a DPI cell written as text, its leading "=" left out
dpi_formula_noeq(r) == "IFERROR(F" \o IntStr(r) \o "/431,0)"

\* CapitalCalls running sums and DPI, columns E, F, G
cumulative_calls_formula(r) == "=SUM(B$3:B" \o IntStr(r) \o ")"
cumulative_dist_formula(r) == "=SUM(C$3:C" \o IntStr(r) \o ")"
dpi_formula(r) == "=IFERROR(F" \o IntStr(r) \o "/431,0)"

build_capital_calls(wb) ==
    LET NROWS == Len(quarters_data)
        SUMR == NROWS + 4
        ws0 == section_title(NewSheet("CapitalCalls"), 1, 1,
                             "Fund VI - Quarterly Capital Activity")
        ws1 == write_headers(ws0, capital_headers, 2)
        ws2 == For(LAMBDA w, i :
                     LET r == i + 3
                         w1 == input_row(set_row_bg(w, r, Len(capital_headers)), r, 1,
                                         quarters_data[i + 1])
                         w2 == apply_formula_style(w1, r, 5, cumulative_calls_formula(r))
                         w3 == apply_formula_style(w2, r, 6, cumulative_dist_formula(r))
                     IN apply_formula_style(w3, r, 7, dpi_formula(r)),
                   ws1, 0, NROWS - 1)
        ws3 == apply_header_style(set_row_bg(ws2, SUMR, Len(capital_headers)), SUMR, 1,
                                  "TOTAL")
        ws4 == For(LAMBDA w, col :
                     apply_formula_style(w, SUMR, col,
                        "=SUM(" \o col_range(get_column_letter(col), 3, NROWS + 2)
                        \o ")"),
                   ws3, 2, 4)
        ws5 == apply_formula_style(ws4, SUMR, 5, "=E" \o IntStr(NROWS + 2))
        ws6 == apply_formula_style(ws5, SUMR, 6, "=F" \o IntStr(NROWS + 2))
        ws7 == apply_formula_style(ws6, SUMR, 7, "=G" \o IntStr(NROWS + 2))
    IN create_sheet(wb, freeze_and_tab(ws7, TAB_COLORS[7], "B2"))

build_benchmarks(wb) ==
    LET fx_row == 8
        sumr == fx_row + 2 + Len(fx_data) + 1
        named_row(w, r, ncols, name, vals) ==
            input_row(apply_input_style(set_row_bg(w, r, ncols), r, 1, name),
                      r, 2, vals)
        ws0 == section_title(NewSheet("Benchmarks"), 1, 1, "IRR Benchmarks by Fund")
        ws1 == write_headers(ws0, irr_hdrs, 2)
        ws2 == For(LAMBDA w, i :
                     named_row(w, 3 + i, Len(irr_hdrs), irr_data[i + 1][1],
                               irr_data[i + 1][2]),
                   ws1, 0, Len(irr_data) - 1)
        ws3 == named_row(ws2, 5, Len(irr_hdrs), VStr("GP Fund IRR %"), gp_irr)
        ws4 == section_title(ws3, fx_row, 1, "FX Exposure")
        ws5 == write_headers(ws4, fx_hdrs, fx_row + 1)
        ws6 == For(LAMBDA w, i :
                     input_row(set_row_bg(w, fx_row + 2 + i, Len(fx_hdrs)),
                               fx_row + 2 + i, 1, fx_data[i + 1]),
                   ws5, 0, Len(fx_data) - 1)
        ws7 == apply_header_style(set_row_bg(ws6, sumr, 4), sumr, 1, "TOTAL")
        ws8 == apply_formula_style(ws7, sumr, 2,
                   "=SUM(" \o col_range("B", fx_row + 2, fx_row + 1 + Len(fx_data))
                   \o ")")
    IN create_sheet(wb, freeze_and_tab(ws8, TAB_COLORS[8], "B2"))

\* a Headway lookup one column short: gm (column 8) instead of nrr
headway_vlookup_gm == "=IFERROR(VLOOKUP(\"Headway\",Portfolio!A:I,8,0),95)"

\* WatchList lookups and status formulas, rows 4 and 5
sanity_vlookup == "=IFERROR(VLOOKUP(\"Sanity\",Portfolio!A:C,3,0),35)"
sanity_status == "=IF(D4<35,\"BREACH\",IF(D4<45,\"WARNING\",\"OK\"))"
headway_vlookup == "=IFERROR(VLOOKUP(\"Headway\",Portfolio!A:I,9,0),95)"
headway_status == "=IF(D5<100,\"BREACH\",\"WARNING\")"

build_watchlist(wb) ==
    LET n == Len(watchlist_headers)
        ws0 == NewSheet("WatchList")
        ws1 == write_headers(ws0, watchlist_headers, 1)
        \* row 2: Q-CTRL, hardcoded breach
        ws2 == input_row(set_row_bg(ws1, 2, n), 2, 1,
                         << VStr("Q-CTRL"), VStr("Concentration"), VStr("25% max"),
                            VFloat(27, 90) >>)
        ws3 == SetCell(ws2, 2, 5, [value |-> VStr("BREACH"), font |-> C_WHITE,
                                   fill |-> C_BREACH_BG])
        \* row 3: d-Matrix, hardcoded warning
        ws4 == input_row(set_row_bg(ws3, 3, n), 3, 1,
                         << VStr("d-Matrix"), VStr("Runway"), VStr("12mo min"),
                            VStr("14mo") >>)
        ws5 == SetCell(ws4, 3, 5, [value |-> VStr("WARNING"), font |-> "E8622A",
                                   fill |-> C_ROW_ODD])
        \* row 4: Sanity
        ws6 == input_row(set_row_bg(ws5, 4, n), 4, 1,
                         << VStr("Sanity"), VStr("Growth Decel"), VStr("35% min") >>)
        ws7 == apply_formula_style(ws6, 4, 4, sanity_vlookup)
        ws8 == apply_formula_style(ws7, 4, 5, sanity_status)
        \* row 5: Headway
        ws9 == input_row(set_row_bg(ws8, 5, n), 5, 1,
                         << VStr("Headway"), VStr("NRR<100%"), VStr("100% min") >>)
        ws10 == apply_formula_style(ws9, 5, 4, headway_vlookup)
        ws11 == apply_formula_style(ws10, 5, 5, headway_status)
        ws12 == [ws11 EXCEPT !.conditional_formatting = Append(@,
                    [range |-> "E2:E5", operator |-> "equal",
                     formula |-> "\"BREACH\"", fill |-> C_BREACH_BG,
                     font |-> C_WHITE])]
    IN create_sheet(wb, freeze_and_tab(ws12, TAB_COLORS[9], "B2"))

build_instructions(wb) ==
    LET ws0 == NewSheet("Instructions")
        ws1 == For(LAMBDA w, i :
                     LET r == i + 1
                         text == lines[i + 1][1]
                         bold == lines[i + 1][2]
                     IN SetCell(w, r, 1,
                          [value |-> VStr(text),
                           font |-> IF bold THEN C_INPUT_TXT ELSE C_HEADER_TXT,
                           fill |-> IF bold THEN C_HEADER_BG
                                    ELSE IF r % 2 # 0 THEN C_ROW_ODD
                                    ELSE C_ROW_EVEN]),
                   ws0, 0, Len(lines) - 1)
    IN create_sheet(wb, freeze_and_tab(ws1, TAB_COLORS[10], "B2"))

(***************************************************************************)
(* The workbook file.  wb.save(path) writes the workbook, load_workbook    *)
(* (path, data_only=False) reads it back with formulas kept as their "="   *)
(* text; cell values, fonts, fills, validations and sheet order survive    *)
(* the round trip, so the file is held as the workbook value it stores.    *)
(***************************************************************************)
\* os.path.abspath(__file__) of the two scripts, for a checkout at /repo
GENERATE_FILE == "/repo/scripts/generate_excel.py"
RECALC_FILE == "/repo/scripts/recalc.py"

\* os.path.dirname(p): p up to its last "/"
dirname(p) ==
    LET slashes == {i \in 1..Len(p) : SubSeq(p, i, i) = "/"}
    IN IF slashes = {} THEN ""
       ELSE SubSeq(p, 1, (CHOOSE i \in slashes : \A j \in slashes : j <= i) - 1)

\* os.path.join(a, b) for a relative b
path_join(a, b) == a \o "/" \o b

\* generate_excel.main(): out_path
out_path == path_join(dirname(dirname(GENERATE_FILE)), "GPBullhound_LiveData.xlsx")

\* a workbook path taken next to the script: one dirname only
WORKBOOK_PATH_in_scripts == path_join(dirname(RECALC_FILE), "GPBullhound_LiveData.xlsx")

\* recalc.py: WORKBOOK_PATH
WORKBOOK_PATH == path_join(dirname(dirname(RECALC_FILE)), "GPBullhound_LiveData.xlsx")
NoFile == << >>

\* an existence test that never fails
exists_always(fs, path) == TRUE

\* os.path.exists(path)
exists(fs, path) == path \in DOMAIN fs /\ fs[path] # NoFile

\* wb.save(path)
save(fs, path, wb) == [p \in (DOMAIN fs) \cup {path} |-> IF p = path THEN wb ELSE fs[p]]

\* load_workbook(path, data_only=False)
load_workbook(fs, path) == fs[path]

(***************************************************************************)
(* recalc.py: the validator's checks                                       *)
(***************************************************************************)
EXCEL_ERRORS == {"#DIV/0!", "#REF!", "#N/A", "#NAME?", "#VALUE!", "#NULL!", "#NUM!"}

\* {e.upper() for e in EXCEL_ERRORS}
UPPER_ERRORS == {upper(e) : e \in EXCEL_ERRORS}

\* an error test that also takes a cell reading 0 for an error
is_error_or_zero(val_str) == val_str = "0" \/ upper(val_str) \in UPPER_ERRORS

\* val_str.upper() in {e.upper() for e in EXCEL_ERRORS}
is_error_str(val_str) == upper(val_str) \in UPPER_ERRORS

\* val_str = str(val), the strip() left out
cell_str_unstripped(val) == py_str(val)

\* val_str = str(val).strip()
cell_str(val) == strip(py_str(val))

\* ws.max_row / ws.max_column: the bounding box ws.iter_rows() walks
max_row(ws) == IF DOMAIN ws.cells = {} THEN 0
               ELSE CHOOSE r \in {rc[1] : rc \in DOMAIN ws.cells} :
                      \A rc \in DOMAIN ws.cells : rc[1] <= r
max_column(ws) == IF DOMAIN ws.cells = {} THEN 0
                  ELSE CHOOSE c \in {rc[2] : rc \in DOMAIN ws.cells} :
                         \A rc \in DOMAIN ws.cells : rc[2] <= c

\* the cells of ws.iter_rows(), row by row, each with what the loop body finds
scan_sheet(ws) ==
    LET R == max_row(ws)
        C == max_column(ws)
    IN [k \in 1..(R * C) |->
          LET r == ((k - 1) \div C) + 1
              c == ((k - 1) % C) + 1
              val == GetCell(ws, r, c).value
              val_str == IF val = VNone THEN "" ELSE cell_str(val)
          IN [row |-> r, column |-> c, val_str |-> val_str,
              formula |-> (val # VNone /\ startswith(val_str, "=")),
              error |-> (val # VNone /\ is_error_str(val_str))]]

\* the loop over wb.sheetnames of verify_workbook
scan_workbook(book) ==
    For(LAMBDA acc, i :
          LET cells == scan_sheet(book[i])
              errs == SelectSeq(cells, LAMBDA x : x.error)
          IN [total_cells |-> acc.total_cells + Len(cells),
              formula_cells |-> acc.formula_cells
                                + Len(SelectSeq(cells, LAMBDA x : x.formula)),
              error_cells |-> acc.error_cells + Len(errs),
              errors_found |-> acc.errors_found
                  \o [j \in 1..Len(errs) |->
                        [sheet |-> book[i].title,
                         cell |-> coordinate(errs[j].row, errs[j].column),
                         val_str |-> errs[j].val_str]],
              out |-> acc.out \o (IF Len(errs) > 0
                                  THEN << "sheet errors: " \o book[i].title >>
                                  ELSE << >>)],
        [total_cells |-> 0, formula_cells |-> 0, error_cells |-> 0,
         errors_found |-> << >>, out |-> << >>],
        1, Len(book))

\* verify_workbook(path): its return value, whether it loaded the file,
\* what it found and what it printed
verify_workbook(fs, path) ==
    IF ~exists(fs, path)
    THEN [ret |-> 1, loaded |-> FALSE, errors_found |-> << >>,
          total_cells |-> 0, formula_cells |-> 0, error_cells |-> 0,
          out |-> << "ERROR: Workbook not found", "Run generate_excel.py first" >>]
    ELSE LET s == scan_workbook(load_workbook(fs, path))
         IN [ret |-> IF s.errors_found # << >> THEN Len(s.errors_found) ELSE 0,
             loaded |-> TRUE, errors_found |-> s.errors_found,
             total_cells |-> s.total_cells, formula_cells |-> s.formula_cells,
             error_cells |-> s.error_cells,
             out |-> << "Loading" >> \o s.out \o << "Recalc Summary" >>
                     \o (IF s.errors_found # << >>
                         THEN << "ERROR DETAILS", "RESULT: FAIL" >>
                         ELSE << "RESULT: PASS" >>)]

\* check_sheet_names: expected
expected == << "Portfolio", "Funds", "LPs", "ExitPipeline", "Pipeline",
               "MacroScenarios", "CapitalCalls", "Benchmarks", "WatchList",
               "Instructions" >>

\* check_sheet_names(wb): missing
check_sheet_names(book) == SelectSeq(expected, LAMBDA s : s \notin SheetSet(book))

\* check_portfolio_headers: required
required == << "name", "arr", "arr_gr", "nav", "nav_pct", "moic", "burn",
               "gm", "nrr", "ev_arr", "ev_arr_entry", "valuation",
               "sector", "stage", "geo", "status", "funds",
               "esg_e", "esg_s", "esg_g", "lever" >>

\* a header check that lets an empty header cell pass
check_portfolio_headers_lenient(book) ==
    LET ws == Sheet(book, "Portfolio")
        actual == [i \in 1..Len(required) |-> GetCell(ws, 1, i).value]
        pairs == [i \in 1..Len(required) |-> << required[i], actual[i] >>]
    IN SelectSeq(pairs, LAMBDA p : p[2] # VNone /\ VStr(p[1]) # p[2])

\* check_portfolio_headers(wb): mismatches; wb["Portfolio"] must exist
check_portfolio_headers(book) ==
    LET ws == Sheet(book, "Portfolio")
        actual == [i \in 1..Len(required) |-> GetCell(ws, 1, i).value]
        pairs == [i \in 1..Len(required) |-> << required[i], actual[i] >>]
    IN SelectSeq(pairs, LAMBDA p : VStr(p[1]) # p[2])

\* a list of spot checks that stops before the WatchList
checks_without_watchlist == <<
    << "Portfolio", "E2", "nav_pct formula" >>,
    << "Portfolio", "J2", "ev_arr formula" >>,
    << "LPs", "J2", "unfunded formula" >>,
    << "ExitPipeline", "K2", "pwav_proceeds formula" >>,
    << "Pipeline", "G2", "ev_arr formula" >>,
    << "CapitalCalls", "E3", "cumulative_calls formula" >>,
    << "CapitalCalls", "F3", "cumulative_dist formula" >>,
    << "CapitalCalls", "G3", "DPI formula" >> >>

\* check_formula_presence: checks
checks == <<
    << "Portfolio", "E2", "nav_pct formula" >>,
    << "Portfolio", "J2", "ev_arr formula" >>,
    << "LPs", "J2", "unfunded formula" >>,
    << "ExitPipeline", "K2", "pwav_proceeds formula" >>,
    << "Pipeline", "G2", "ev_arr formula" >>,
    << "CapitalCalls", "E3", "cumulative_calls formula" >>,
    << "CapitalCalls", "F3", "cumulative_dist formula" >>,
    << "CapitalCalls", "G3", "DPI formula" >>,
    << "WatchList", "D4", "Sanity VLOOKUP" >>,
    << "WatchList", "E4", "Sanity IF status" >>,
    << "WatchList", "D5", "Headway VLOOKUP" >>,
    << "WatchList", "E5", "Headway IF status" >> >>

RECURSIVE ParseNat(_)
ParseNat(s) ==
    IF s = "" THEN 0
    ELSE 10 * ParseNat(SubSeq(s, 1, Len(s) - 1))
         + (CHOOSE d \in 0..9 : Digit(d) = SubSeq(s, Len(s), Len(s)))

\* ws[cell_addr] for a one-letter column: <<row, column>>
cell_at(cell_addr) ==
    << ParseNat(SubSeq(cell_addr, 2, Len(cell_addr))),
       CHOOSE j \in 1..26 : SubSeq(UpperChars, j, j) = SubSeq(cell_addr, 1, 1) >>

\* a loop iteration that strips the content before looking for "="
check_formula_cell_stripped(book, failures, chk) ==
    IF chk[1] \notin SheetSet(book)
    THEN Append(failures, [sheet |-> chk[1], cell |-> "", desc |-> "Missing sheet",
                           got |-> ""])
    ELSE LET rc == cell_at(chk[2])
             value == GetCell(Sheet(book, chk[1]), rc[1], rc[2]).value
             val == strip(py_str(IF py_truthy(value) THEN value ELSE VStr("")))
         IN IF ~startswith(val, "=")
            THEN Append(failures, [sheet |-> chk[1], cell |-> chk[2],
                                   desc |-> chk[3], got |-> val])
            ELSE failures

\* one iteration of the loop of check_formula_presence
check_formula_cell(book, failures, chk) ==
    IF chk[1] \notin SheetSet(book)
    THEN Append(failures, [sheet |-> chk[1], cell |-> "", desc |-> "Missing sheet",
                           got |-> ""])
    ELSE LET rc == cell_at(chk[2])
             value == GetCell(Sheet(book, chk[1]), rc[1], rc[2]).value
             val == py_str(IF py_truthy(value) THEN value ELSE VStr(""))
         IN IF ~startswith(val, "=")
            THEN Append(failures, [sheet |-> chk[1], cell |-> chk[2],
                                   desc |-> chk[3], got |-> val])
            ELSE failures

\* check_formula_presence(wb): failures
check_formula_presence(book) ==
    For(LAMBDA failures, i : check_formula_cell(book, failures, checks[i]),
        << >>, 1, Len(checks))

\* an exit status that is the issue count itself
exit_status_count(total_issues) == total_issues

\* sys.exit status of main() for a total issue count
exit_status(total_issues) == IF total_issues = 0 THEN 0 ELSE 1


\* main() on a file that holds the workbook `book`, as a function of it:
\* << total_issues, exit status >>, or << -1, 1 >> when
\* check_portfolio_headers raises KeyError and no total is computed
main_outcome(book) ==
    IF "Portfolio" \notin SheetSet(book) THEN << -1, 1 >>
    ELSE LET structural_issues == Len(check_sheet_names(book))
                                  + Len(check_portfolio_headers(book))
                                  + Len(check_formula_presence(book))
             error_count_ == verify_workbook([p \in {WORKBOOK_PATH} |-> book],
                                             WORKBOOK_PATH).ret
             total_issues == error_count_ + structural_issues
         IN << total_issues, exit_status(total_issues) >>
(***************************************************************************)
(* State                                                                   *)
(***************************************************************************)
VARIABLES
    fs,                 \* the files: path -> stored workbook, or NoFile
    gen_pc,             \* generate_excel.main(): the next statement
    gen_wb,             \* generate_excel.main(): wb
    val_pc,             \* recalc.main() / verify_workbook(): the next statement
    wb,                 \* recalc.main(): wb
    missing_sheets,     \* recalc.main(): missing_sheets
    header_mismatches,  \* recalc.main(): header_mismatches
    formula_failures,   \* recalc.main(): formula_failures
    error_count,        \* recalc.main(): error_count / verify_workbook's return
    scan,               \* what the last verify_workbook call found
    call_path,          \* the path the last verify_workbook call was given
    stdout,             \* the validator's printed lines, by their leading words
    exit_code,          \* the validator's process exit status, -1 while running
    exit_by,            \* "sys.exit", or the uncaught exception that ended it
    loads,              \* load_workbook calls made by the validator
    saves,              \* wb.save calls made by the generator
    edits               \* edits made to the saved file by its users

vars == << fs, gen_pc, gen_wb, val_pc, wb, missing_sheets, header_mismatches,
           formula_failures, error_count, scan, call_path, stdout, exit_code,
           exit_by, loads, saves, edits >>

gen_vars == << gen_pc, gen_wb, saves >>
val_vars == << val_pc, wb, missing_sheets, header_mismatches, formula_failures,
               error_count, scan, call_path, stdout, exit_code, exit_by, loads >>

\* a second path, at which no file is ever written
OTHER_PATH == "other.xlsx"
Paths == {WORKBOOK_PATH, out_path, OTHER_PATH}

\* how many edits the file's users make between generation and validation
MaxEdits == 1

NoScan == [ret |-> 0, loaded |-> FALSE, errors_found |-> << >>, total_cells |-> 0,
           formula_cells |-> 0, error_cells |-> 0, out |-> << >>]

Init ==
    /\ fs = [p \in Paths |-> NoFile]
    /\ gen_pc = "idle"
    /\ gen_wb = << >>
    /\ val_pc = "idle"
    /\ wb = << >>
    /\ missing_sheets = << >>
    /\ header_mismatches = << >>
    /\ formula_failures = << >>
    /\ error_count = 0
    /\ scan = NoScan
    /\ call_path = ""
    /\ stdout = << >>
    /\ exit_code = -1
    /\ exit_by = ""
    /\ loads = 0
    /\ saves = 0
    /\ edits = 0

(***************************************************************************)
(* generate_excel.main(), one action per statement                         *)
(***************************************************************************)
GenStep(from, to, new_wb) ==
    /\ gen_pc = from
    /\ gen_pc' = to
    /\ gen_wb' = new_wb
    /\ UNCHANGED << fs, saves, edits >>
    /\ UNCHANGED val_vars

GenWorkbook ==
    /\ val_pc = "idle"
    /\ GenStep("idle", "build_portfolio", Workbook)
GenPortfolio == GenStep("build_portfolio", "build_funds", build_portfolio(gen_wb))
GenFunds == GenStep("build_funds", "build_lps", build_funds(gen_wb))
GenLPs == GenStep("build_lps", "build_exit_pipeline", build_lps(gen_wb))
GenExitPipeline ==
    GenStep("build_exit_pipeline", "build_pipeline", build_exit_pipeline(gen_wb))
GenPipeline ==
    GenStep("build_pipeline", "build_macro_scenarios", build_pipeline(gen_wb))
GenMacroScenarios ==
    GenStep("build_macro_scenarios", "build_capital_calls",
            build_macro_scenarios(gen_wb))
GenCapitalCalls ==
    GenStep("build_capital_calls", "build_benchmarks", build_capital_calls(gen_wb))
GenBenchmarks ==
    GenStep("build_benchmarks", "build_watchlist", build_benchmarks(gen_wb))
GenWatchList ==
    GenStep("build_watchlist", "build_instructions", build_watchlist(gen_wb))
GenInstructions ==
    GenStep("build_instructions", "save", build_instructions(gen_wb))

\* wb.save(out_path); return out_path
GenSave ==
    /\ gen_pc = "save"
    /\ gen_pc' = "done"
    /\ fs' = save(fs, out_path, gen_wb)
    /\ saves' = saves + 1
    /\ edits' = 0
    /\ UNCHANGED gen_wb
    /\ UNCHANGED val_vars

Generator ==
    \/ GenWorkbook \/ GenPortfolio \/ GenFunds \/ GenLPs \/ GenExitPipeline
    \/ GenPipeline \/ GenMacroScenarios \/ GenCapitalCalls \/ GenBenchmarks
    \/ GenWatchList \/ GenInstructions \/ GenSave

\* neither script is in the middle of a run
Quiet == gen_pc \in {"idle", "done"} /\ val_pc = "idle"

(***************************************************************************)
(* The file's users, between the two scripts: they overwrite a cell,       *)
(* delete a sheet, or delete the file.                                     *)
(***************************************************************************)
EditCells == {
    << "Portfolio", 1, 3 >>,        \* header arr_gr
    << "Portfolio", 1, 22 >>,       \* first column after the headers
    << "WatchList", 4, 4 >>,        \* Sanity lookup
    << "MacroScenarios", 2, 11 >> } \* probability of the first scenario

EditValues == {
    VNone, VInt(0), VStr("#REF!"), VStr(" #n/a\t"), VStr("=#REF!"), VStr(" =A1") }

\* the stored workbook with one cell's value overwritten
WithValue(book, name, r, c, v) ==
    [i \in 1..Len(book) |->
        IF book[i].title = name THEN SetValue(book[i], r, c, v) ELSE book[i]]

\* the stored workbook without one sheet
WithoutSheet(book, name) == SelectSeq(book, LAMBDA ws : ws.title # name)

EnvEdit(new_file) ==
    /\ Quiet
    /\ exists(fs, WORKBOOK_PATH)
    /\ edits < MaxEdits
    /\ fs' = [fs EXCEPT ![WORKBOOK_PATH] = new_file]
    /\ edits' = edits + 1
    /\ UNCHANGED gen_vars
    /\ UNCHANGED val_vars

EnvSetCell ==
    \E t \in EditCells, v \in EditValues :
        /\ exists(fs, WORKBOOK_PATH)
        /\ t[1] \in SheetSet(fs[WORKBOOK_PATH])
        /\ GetCell(Sheet(fs[WORKBOOK_PATH], t[1]), t[2], t[3]).value # v
        /\ EnvEdit(WithValue(fs[WORKBOOK_PATH], t[1], t[2], t[3], v))

EnvRemoveSheet ==
    \E name \in SheetSet(fs[WORKBOOK_PATH]) :
        /\ Len(fs[WORKBOOK_PATH]) > 1
        /\ EnvEdit(WithoutSheet(fs[WORKBOOK_PATH], name))

EnvDeleteFile == EnvEdit(NoFile)

\* WatchList lookups as a user may rewrite them, still formulas:
\* <<row, formula>>, the index changed (row 4) or the range changed (row 5)
LookupRewrites == {
    << 4, "=IFERROR(VLOOKUP(\"Sanity\",Portfolio!A:C,2,0),35)" >>,
    << 5, "=IFERROR(VLOOKUP(\"Headway\",Portfolio!A:H,9,0),95)" >> }

EnvRewriteLookup ==
    \E t \in LookupRewrites :
        /\ exists(fs, WORKBOOK_PATH)
        /\ "WatchList" \in SheetSet(fs[WORKBOOK_PATH])
        /\ EnvEdit(WithValue(fs[WORKBOOK_PATH], "WatchList", t[1], 4, VStr(t[2])))

Environment == EnvSetCell \/ EnvRemoveSheet \/ EnvDeleteFile \/ EnvRewriteLookup

(***************************************************************************)
(* recalc.main(), one action per statement                                 *)
(***************************************************************************)
\* if not os.path.exists(WORKBOOK_PATH): print ...; sys.exit(1)
ValStart ==
    /\ Quiet
    /\ IF ~exists(fs, WORKBOOK_PATH)
       THEN /\ stdout' = stdout \o << "ERROR: not found", "Generate it first" >>
            /\ exit_code' = 1
            /\ exit_by' = "sys.exit"
            /\ val_pc' = "exited"
       ELSE /\ val_pc' = "load_workbook"
            /\ UNCHANGED << stdout, exit_code, exit_by >>
    /\ UNCHANGED << fs, edits, wb, missing_sheets, header_mismatches,
                    formula_failures, error_count, scan, call_path, loads >>
    /\ UNCHANGED gen_vars

\* wb = load_workbook(WORKBOOK_PATH, data_only=False)
ValLoad ==
    /\ val_pc = "load_workbook"
    /\ wb' = load_workbook(fs, WORKBOOK_PATH)
    /\ loads' = loads + 1
    /\ stdout' = Append(stdout, "Structural Checks")
    /\ val_pc' = "check_sheet_names"
    /\ UNCHANGED << fs, edits, missing_sheets, header_mismatches, formula_failures,
                    error_count, scan, call_path, exit_code, exit_by >>
    /\ UNCHANGED gen_vars

\* missing_sheets = check_sheet_names(wb)
ValSheetNames ==
    /\ val_pc = "check_sheet_names"
    /\ missing_sheets' = check_sheet_names(wb)
    /\ stdout' = Append(stdout, IF check_sheet_names(wb) # << >>
                                THEN "WARN: Missing sheets"
                                ELSE "Sheet names: OK")
    /\ val_pc' = "check_portfolio_headers"
    /\ UNCHANGED << fs, edits, wb, header_mismatches, formula_failures,
                    error_count, scan, call_path, exit_code, exit_by, loads >>
    /\ UNCHANGED gen_vars

\* header_mismatches = check_portfolio_headers(wb); wb["Portfolio"] raises
\* KeyError when the sheet is absent, which nothing catches: the interpreter
\* prints the traceback and the process ends with status 1
ValHeaders ==
    /\ val_pc = "check_portfolio_headers"
    /\ IF "Portfolio" \in SheetSet(wb)
       THEN /\ header_mismatches' = check_portfolio_headers(wb)
            /\ stdout' = Append(stdout, IF check_portfolio_headers(wb) # << >>
                                        THEN "Portfolio headers: MISMATCH"
                                        ELSE "Portfolio headers: OK")
            /\ val_pc' = "check_formula_presence"
            /\ UNCHANGED << exit_code, exit_by >>
       ELSE /\ exit_code' = 1
            /\ exit_by' = "KeyError"
            /\ val_pc' = "exited"
            /\ UNCHANGED << header_mismatches, stdout >>
    /\ UNCHANGED << fs, edits, wb, missing_sheets, formula_failures,
                    error_count, scan, call_path, loads >>
    /\ UNCHANGED gen_vars

\* formula_failures = check_formula_presence(wb)
ValFormulas ==
    /\ val_pc = "check_formula_presence"
    /\ formula_failures' = check_formula_presence(wb)
    /\ stdout' = Append(stdout, IF check_formula_presence(wb) # << >>
                                THEN "Formula presence: FAIL"
                                ELSE "Formula presence: OK")
    /\ val_pc' = "verify_workbook"
    /\ UNCHANGED << fs, edits, wb, missing_sheets, header_mismatches,
                    error_count, scan, call_path, exit_code, exit_by, loads >>
    /\ UNCHANGED gen_vars

\* the effects of one verify_workbook(path) call
Verify(path, next_pc) ==
    LET v == verify_workbook(fs, path)
    IN /\ error_count' = v.ret
       /\ scan' = v
       /\ call_path' = path
       /\ loads' = loads + (IF v.loaded THEN 1 ELSE 0)
       /\ stdout' = stdout \o v.out
       /\ val_pc' = next_pc
       /\ UNCHANGED << fs, edits, wb, missing_sheets, header_mismatches,
                       formula_failures, exit_code, exit_by >>
       /\ UNCHANGED gen_vars

\* error_count = verify_workbook(WORKBOOK_PATH)
ValVerify ==
    /\ val_pc = "verify_workbook"
    /\ Verify(WORKBOOK_PATH, "summary")

\* total_issues = error_count + structural_issues; sys.exit(0 or 1)
ValSummary ==
    /\ val_pc = "summary"
    /\ LET structural_issues == Len(missing_sheets) + Len(header_mismatches)
                                + Len(formula_failures)
           total_issues == error_count + structural_issues
       IN /\ stdout' = Append(stdout, IF total_issues = 0
                                      THEN "All checks passed"
                                      ELSE "issue(s) found")
          /\ exit_code' = exit_status(total_issues)
    /\ exit_by' = "sys.exit"
    /\ val_pc' = "exited"
    /\ UNCHANGED << fs, edits, wb, missing_sheets, header_mismatches,
                    formula_failures, error_count, scan, call_path, loads >>
    /\ UNCHANGED gen_vars

\* verify_workbook(path) called on its own, by a script that imports recalc
VerifyCall ==
    /\ Quiet
    /\ \E path \in Paths : Verify(path, "returned")

Validator ==
    \/ ValStart \/ ValLoad \/ ValSheetNames \/ ValHeaders \/ ValFormulas
    \/ ValVerify \/ ValSummary \/ VerifyCall

Next == Generator \/ Environment \/ Validator

Spec == Init /\ [][Next]_vars

(***************************************************************************)
(* Vocabulary of the properties, stated on the stored file and on the      *)
(* validator's results without going through the validator's own helpers   *)
(***************************************************************************)
\* the workbook stored at WORKBOOK_PATH (NoFile when there is none)
File == fs[WORKBOOK_PATH]

\* the file is the one the generator saved, untouched since
Pristine == gen_pc = "done" /\ edits = 0

\* the generator has just saved the file: nothing has read or touched it
JustGenerated == Pristine /\ val_pc = "idle"

\* the ten sheet names, in the generator's order
TenSheets == << "Portfolio", "Funds", "LPs", "ExitPipeline", "Pipeline",
                "MacroScenarios", "CapitalCalls", "Benchmarks", "WatchList",
                "Instructions" >>

\* the 21 Portfolio header names, in order
HeaderNames == << "name", "arr", "arr_gr", "nav", "nav_pct", "moic", "burn", "gm",
                  "nrr", "ev_arr", "ev_arr_entry", "valuation", "sector", "stage",
                  "geo", "status", "funds", "esg_e", "esg_s", "esg_g", "lever" >>

\* the 12 designated formula cells, as <<sheet, row, column>>
Designated == {
    << "Portfolio", 2, 5 >>, << "Portfolio", 2, 10 >>, << "LPs", 2, 10 >>,
    << "ExitPipeline", 2, 11 >>, << "Pipeline", 2, 7 >>,
    << "CapitalCalls", 3, 5 >>, << "CapitalCalls", 3, 6 >>, << "CapitalCalls", 3, 7 >>,
    << "WatchList", 4, 4 >>, << "WatchList", 4, 5 >>,
    << "WatchList", 5, 4 >>, << "WatchList", 5, 5 >> }

\* the seven spreadsheet error literals
ErrorLiterals == {"#DIV/0!", "#REF!", "#N/A", "#NAME?", "#VALUE!", "#NULL!", "#NUM!"}

Blank == {" ", "\t", "\n", "\r", "\f"}

\* s without its leading and trailing blanks
Trimmed(s) ==
    LET inked == {i \in 1..Len(s) : SubSeq(s, i, i) \notin Blank}
    IN IF inked = {} THEN ""
       ELSE SubSeq(s, CHOOSE i \in inked : \A j \in inked : i <= j,
                      CHOOSE i \in inked : \A j \in inked : j <= i)

\* two characters that are equal up to letter case
SameLetter(x, y) ==
    \/ x = y
    \/ \E j \in 1..26 : {x, y} = {SubSeq(LowerChars, j, j), SubSeq(UpperChars, j, j)}

\* two strings that are equal up to letter case
EqualIgnoringCase(a, b) ==
    /\ Len(a) = Len(b)
    /\ \A i \in 1..Len(a) : SameLetter(SubSeq(a, i, i), SubSeq(b, i, i))

\* the text of a cell's stored content
ContentText(v) ==
    CASE v.t = "str" -> v.s
      [] v.t = "int" -> IntStr(v.n)
      [] v.t = "float" -> FloatStr(v.h)
      [] v.t = "none" -> ""

\* a cell whose trimmed content is one of the error literals, up to case
IsErrorCell(v) ==
    /\ v.t # "none"
    /\ \E e \in ErrorLiterals : EqualIgnoringCase(Trimmed(ContentText(v)), e)

\* a cell the scan counts as a formula
IsFormulaCell(v) ==
    /\ v.t # "none"
    /\ LET s == Trimmed(ContentText(v)) IN Len(s) >= 1 /\ SubSeq(s, 1, 1) = "="

\* the error cells of a stored workbook, as <<sheet title, coordinate>>
ErrorCellsOf(book) ==
    UNION { { << book[i].title, coordinate(rc[1], rc[2]) >> :
                rc \in {x \in DOMAIN book[i].cells : IsErrorCell(book[i].cells[x].value)} }
            : i \in 1..Len(book) }

\* the formula cells of a stored workbook, as <<sheet title, coordinate>>
FormulaCellsOf(book) ==
    UNION { { << book[i].title, coordinate(rc[1], rc[2]) >> :
                rc \in {x \in DOMAIN book[i].cells : IsFormulaCell(book[i].cells[x].value)} }
            : i \in 1..Len(book) }

\* the cells verify_workbook reported, as <<sheet title, coordinate>>
Reported == { << scan.errors_found[i].sheet, scan.errors_found[i].cell >> :
                i \in 1..Len(scan.errors_found) }

\* a designated cell that lies in a sheet of the loaded workbook and holds
\* content starting with "="
HoldsFormula(d) ==
    /\ \E i \in 1..Len(wb) : wb[i].title = d[1]
    /\ LET v == GetCell(Sheet(wb, d[1]), d[2], d[3]).value
       IN v.t = "str" /\ Len(v.s) >= 1 /\ SubSeq(v.s, 1, 1) = "="

RECURSIVE SumOf(_, _)
\* the sum of f over the finite set S
SumOf(f, S) ==
    IF S = {} THEN 0
    ELSE LET x == CHOOSE y \in S : TRUE IN f[x] + SumOf(f, S \ {x})

\* main() ran all its checks and left through its summary
RanToSummary == val_pc = "exited" /\ scan.loaded /\ call_path = WORKBOOK_PATH

(***************************************************************************)
(* Properties                                                              *)
(***************************************************************************)

\* C1: when the validator's main() has run on the workbook exactly as the
\* generator saved it, it found no missing sheet, no header mismatch, no
\* formula-presence failure, no error cell, and exited with code 0.
C1_PristineWorkbookPasses ==
    (Pristine /\ val_pc = "exited") =>
        /\ missing_sheets = << >>
        /\ header_mismatches = << >>
        /\ formula_failures = << >>
        /\ scan.loaded /\ scan.error_cells = 0 /\ error_count = 0
        /\ exit_code = 0 /\ exit_by = "sys.exit"

C1_Witness == Pristine /\ val_pc = "exited" /\ loads > 0

\* C2: the saved workbook holds exactly the ten sheets Portfolio, Funds, LPs,
\* ExitPipeline, Pipeline, MacroScenarios, CapitalCalls, Benchmarks,
\* WatchList, Instructions, in that order; no default sheet is left over, and
\* the names are the validator's expected names.
C2_TenSheetsInOrder ==
    Pristine =>
        /\ sheetnames(File) = TenSheets
        /\ Len(File) = 10
        /\ \A i \in 1..Len(File) : File[i].title # "Sheet"
        /\ {File[i].title : i \in 1..Len(File)} = {expected[i] : i \in 1..Len(expected)}

C2_Witness == Pristine /\ Len(File) = 10 /\ File[1].title = "Portfolio"

\* C3: when main() has run all its checks on an existing workbook, it exits
\* with 0 if the missing sheets, header mismatches, formula-presence failures
\* and error cells all number zero, and with 1 otherwise, whatever the count.
C3_ExitCodeIsZeroOrOne ==
    RanToSummary =>
        LET clean == /\ Len(missing_sheets) = 0
                     /\ Len(header_mismatches) = 0
                     /\ Len(formula_failures) = 0
                     /\ scan.error_cells = 0
        IN /\ exit_by = "sys.exit"
           /\ exit_code = (IF clean THEN 0 ELSE 1)

C3_Witness ==
    /\ RanToSummary
    /\ Len(missing_sheets) + Len(header_mismatches) + Len(formula_failures)
         + scan.error_cells >= 2
    /\ exit_code = 1

\* C4: when main() starts and there is no workbook file, it prints the
\* not-found message and exits with code 1 at once: nothing is loaded, no
\* structural check runs, no cell is scanned.
C4_MissingFileExitsAtOnce ==
    (val_pc \notin {"idle", "returned"} /\ File = NoFile) =>
        /\ val_pc = "exited"
        /\ exit_code = 1 /\ exit_by = "sys.exit"
        /\ stdout = << "ERROR: not found", "Generate it first" >>
        /\ loads = 0 /\ wb = << >>
        /\ missing_sheets = << >> /\ header_mismatches = << >>
        /\ formula_failures = << >>
        /\ scan = NoScan /\ call_path = ""

C4_Witness == val_pc = "exited" /\ File = NoFile /\ exit_code = 1

\* C5 (as claimed): whenever an expected sheet is absent from the workbook,
\* main() reports exactly the absent names, runs its remaining checks to the
\* end, prints the issue summary and leaves through its own exit(1).
C5_MissingSheetReportedToTheEnd ==
    LET absent == SelectSeq(TenSheets,
                            LAMBDA s : \A i \in 1..Len(File) : File[i].title # s)
    IN (val_pc = "exited" /\ File # NoFile /\ absent # << >>) =>
           /\ missing_sheets = absent
           /\ scan.loaded
           /\ stdout[Len(stdout)] = "issue(s) found"
           /\ exit_by = "sys.exit" /\ exit_code = 1

\* the header check has run on the loaded workbook
HeadersChecked ==
    /\ val_pc \in {"check_formula_presence", "verify_workbook", "summary"}
    /\ \E i \in 1..Len(wb) : wb[i].title = "Portfolio"

\* row 1 of the loaded Portfolio sheet holds the 21 names in columns 1..21
FirstHeadersExact ==
    \A i \in 1..21 : GetCell(Sheet(wb, "Portfolio"), 1, i).value = VStr(HeaderNames[i])

\* row 1 of the loaded Portfolio sheet holds nothing after column 21
NoFurtherHeader ==
    \A rc \in DOMAIN Sheet(wb, "Portfolio").cells :
        (rc[1] = 1 /\ rc[2] > 21) => Sheet(wb, "Portfolio").cells[rc].value = VNone

\* C6 (as claimed): check_portfolio_headers returns no mismatch exactly when
\* row 1 of Portfolio is the 21-name list and nothing follows column 21.
C6_HeadersExactAndNothingMore ==
    HeadersChecked =>
        (header_mismatches = << >> <=> (FirstHeadersExact /\ NoFurtherHeader))

\* C6 (amended): check_portfolio_headers returns no mismatch exactly when the
\* first 21 cells of row 1 of Portfolio hold the 21 names, each in its
\* position; what row 1 holds after column 21 is not looked at.
C6_FirstHeadersExact ==
    HeadersChecked => (header_mismatches = << >> <=> FirstHeadersExact)

C6_Witness ==
    HeadersChecked /\ header_mismatches = << >> /\ ~NoFurtherHeader

\* a verify_workbook call has just returned
VerifyReturned == val_pc \in {"summary", "returned"}

\* C7 (as claimed): for every path, verify_workbook returns the number of
\* error cells of the workbook at that path, and 0 when it found none.
C7_ReturnsErrorCellCount ==
    VerifyReturned =>
        /\ scan.errors_found = << >> => error_count = 0
        /\ error_count = Cardinality(ErrorCellsOf(fs[call_path]))

\* C8: verify_workbook counts a cell as an error cell exactly when its
\* non-empty content, as text trimmed of blanks, equals one of the seven error
\* literals up to letter case; each such cell is counted once, and no cell
\* counted as a formula is counted as an error.
C8_ErrorCellsExactlyTheLiterals ==
    (VerifyReturned /\ scan.loaded) =>
        /\ Reported = ErrorCellsOf(fs[call_path])
        /\ Len(scan.errors_found) = Cardinality(Reported)
        /\ scan.error_cells = Cardinality(Reported)
        /\ Reported \cap FormulaCellsOf(fs[call_path]) = {}
        /\ scan.formula_cells = Cardinality(FormulaCellsOf(fs[call_path]))

C8_Witness ==
    /\ VerifyReturned /\ scan.loaded
    /\ \E i \in 1..Len(scan.errors_found) : scan.errors_found[i].val_str = "#n/a"

\* C9: check_formula_presence returns no failure exactly when each of the 12
\* designated cells lies in an existing sheet and holds content starting with
\* "="; every designated cell that does not yields one failure.
C9_FormulaPresence ==
    val_pc = "verify_workbook" =>
        /\ formula_failures = << >> <=> \A d \in Designated : HoldsFormula(d)
        /\ Len(formula_failures) = Cardinality({d \in Designated : ~HoldsFormula(d)})

C9_Witness == val_pc = "verify_workbook" /\ Len(formula_failures) = 3

\* the MacroScenarios sheet of the stored workbook
Macro == Sheet(File, "MacroScenarios")

\* the rows of MacroScenarios column K that hold a hardcoded number
ProbabilityRows ==
    {rc[1] : rc \in {x \in DOMAIN Macro.cells :
                        x[2] = 11 /\ Macro.cells[x].value.t = "int"}}

\* C10: in the generated MacroScenarios sheet the hardcoded probabilities of
\* column K sum to 100, each lies in 0..100, they fill rows 2..7, and the sum
\* formula and the 0-100 validation both cover exactly K2:K7.
C10_ProbabilitiesSumTo100 ==
    Pristine =>
        LET p == [r \in ProbabilityRows |-> Macro.cells[<< r, 11 >>].value.n]
            formulas == {rc \in DOMAIN Macro.cells :
                            rc[2] = 11 /\ IsFormulaCell(Macro.cells[rc].value)}
        IN /\ ProbabilityRows = 2..7
           /\ SumOf(p, ProbabilityRows) = 100
           /\ \A r \in ProbabilityRows : 0 <= p[r] /\ p[r] <= 100
           /\ \A rc \in formulas : Macro.cells[rc].value = VStr("=SUM(K2:K7)")
           /\ Cardinality(formulas) = 1
           /\ \A rc \in formulas : rc[1] \notin ProbabilityRows
           /\ Len(Macro.validations) = 1
           /\ Macro.validations[1] =
                [type |-> "decimal", operator |-> "between", formula1 |-> "0",
                 formula2 |-> "100", sqref |-> "K2:K7"]

C10_Witness ==
    Pristine /\ Cardinality(ProbabilityRows) = 6 /\ Len(Macro.validations) = 1

(***************************************************************************)
(* Spreadsheet formulas, read back from the text the generator stored      *)
(***************************************************************************)
\* where p first occurs in s (0 when it does not)
Find(s, p) ==
    LET hits == {i \in 1..(Len(s) - Len(p) + 1) : SubSeq(s, i, i + Len(p) - 1) = p}
    IN IF hits = {} THEN 0 ELSE CHOOSE i \in hits : \A j \in hits : i <= j

\* the text of s after the first p ("" when s has no p)
After(s, p) ==
    IF Find(s, p) = 0 THEN "" ELSE SubSeq(s, Find(s, p) + Len(p), Len(s))

\* the text of s before the first p (s when s has no p)
Before(s, p) ==
    IF Find(s, p) = 0 THEN s ELSE SubSeq(s, 1, Find(s, p) - 1)

\* the number a string of digits writes (-1 when it is not one)
NumberOf(s) ==
    IF s = "" \/ \E i \in 1..Len(s) : \A d \in 0..9 : Digit(d) # SubSeq(s, i, i)
    THEN -1
    ELSE LET RECURSIVE val(_)
             val(n) == IF n = 0 THEN 0
                       ELSE 10 * val(n - 1)
                            + (CHOOSE d \in 0..9 : Digit(d) = SubSeq(s, n, n))
         IN val(Len(s))

\* the column a one-letter column name stands for (0 when it is not one)
LetterColumn(l) ==
    IF \E j \in 1..26 : SubSeq(UpperChars, j, j) = l
    THEN CHOOSE j \in 1..26 : SubSeq(UpperChars, j, j) = l
    ELSE 0

\* a cell whose content is a VLOOKUP formula
IsLookup(v) == v.t = "str" /\ Find(v.s, "VLOOKUP(\"") > 0

\* the parts of =IFERROR(VLOOKUP("key",sheet!F:L,index,0),default)
Lookup(f) ==
    LET args == After(f, "VLOOKUP(\"")
        range == After(args, "!")
    IN [key |-> Before(args, "\""),
        sheet |-> Before(After(args, "\","), "!"),
        first |-> LetterColumn(Before(range, ":")),
        last |-> LetterColumn(Before(After(range, ":"), ",")),
        index |-> NumberOf(Before(After(After(range, ":"), ","), ",")),
        default |-> NumberOf(Before(After(f, "),"), ")"))]

\* the rows of sheet L.sheet whose cell in the range's first column is the key
LookupRows(book, L) ==
    IF \A i \in 1..Len(book) : book[i].title # L.sheet THEN {}
    ELSE LET ws == Sheet(book, L.sheet)
         IN {x[1] : x \in {y \in DOMAIN ws.cells :
                              y[2] = L.first /\ ws.cells[y].value = VStr(L.key)}}

\* what VLOOKUP(key, range, index, 0) evaluates to
VLookup(book, L) ==
    IF LookupRows(book, L) = {} THEN VStr("#N/A")
    ELSE IF L.index < 1 \/ L.index > L.last - L.first + 1 THEN VStr("#REF!")
    ELSE LET rows == LookupRows(book, L)
             r == CHOOSE x \in rows : \A y \in rows : x <= y
         IN GetCell(Sheet(book, L.sheet), r, L.first + L.index - 1).value

\* the column the lookup reads holds the intended header in row 1 of its sheet
PointsAt(book, L, header) ==
    /\ \E i \in 1..Len(book) : book[i].title = L.sheet
    /\ L.first >= 1 /\ L.index >= 1 /\ L.index <= L.last - L.first + 1
    /\ GetCell(Sheet(book, L.sheet), 1, L.first + L.index - 1).value = VStr(header)

\* the WatchList rows that look a value up: <<row, company, header>>
WatchLookups == { << 4, "Sanity", "arr_gr" >>, << 5, "Headway", "nrr" >> }

\* C11: in the generated workbook each WatchList lookup names a company of
\* Portfolio column A, its index lies within its range and is the position
\* of the intended header (arr_gr, nrr) in the Portfolio header row, and the
\* lookup yields that company's number, not an error the IFERROR would
\* replace by its default.
C11_LookupsMatchPortfolio ==
    Pristine =>
        \A w \in WatchLookups :
            LET v == GetCell(Sheet(File, "WatchList"), w[1], 4).value
                L == Lookup(v.s)
                P == Sheet(File, "Portfolio")
                pos == CHOOSE i \in 1..Len(HeaderNames) : HeaderNames[i] = w[3]
            IN /\ IsLookup(v)
               /\ L.key = w[2] /\ L.sheet = "Portfolio" /\ L.first = 1
               /\ GetCell(Sheet(File, "WatchList"), w[1], 1).value = VStr(w[2])
               /\ \E r \in LookupRows(File, L) : r >= 2
               /\ L.index = pos
               /\ PointsAt(File, L, w[3])
               /\ VLookup(File, L).t \in {"int", "float"}
               /\ \A r \in LookupRows(File, L) :
                      VLookup(File, L) = GetCell(P, r, pos).value

C11_Witness ==
    /\ Pristine
    /\ VLookup(File, Lookup(GetCell(Sheet(File, "WatchList"), 4, 4).value.s)) = VInt(38)
    /\ VLookup(File, Lookup(GetCell(Sheet(File, "WatchList"), 5, 4).value.s)) = VInt(95)

\* a WatchList lookup of the loaded workbook whose index does not point at
\* the Portfolio column of its intended header
BrokenLookups ==
    {w \in WatchLookups :
        LET v == GetCell(Sheet(wb, "WatchList"), w[1], 4).value
        IN IsLookup(v) /\ ~PointsAt(wb, Lookup(v.s), w[3])}

\* main() has run to its end on a workbook that has both sheets of the contract
RanOnContract ==
    /\ RanToSummary
    /\ \E i \in 1..Len(wb) : wb[i].title = "WatchList"

\* C12 (as claimed): whenever a WatchList lookup's index no longer points at
\* the Portfolio column of its intended header, because the header row or
\* the formula's index or range changed, main() reports an issue and exits
\* non-zero.
C12_BrokenLookupDetected ==
    (RanOnContract /\ BrokenLookups # {}) =>
        /\ exit_code # 0
        /\ Len(missing_sheets) + Len(header_mismatches) + Len(formula_failures)
             + scan.error_cells > 0

\* the loaded workbook is the generated one but for the text of the lookups
\* in WatchList D4 and D5, which are still lookups
OnlyLookupsRewritten ==
    /\ sheetnames(wb) = sheetnames(gen_wb)
    /\ \A i \in 1..Len(wb) :
          /\ [wb[i] EXCEPT !.cells = << >>] = [gen_wb[i] EXCEPT !.cells = << >>]
          /\ DOMAIN wb[i].cells = DOMAIN gen_wb[i].cells
          /\ \A rc \in DOMAIN wb[i].cells :
                \/ wb[i].cells[rc] = gen_wb[i].cells[rc]
                \/ /\ wb[i].title = "WatchList" /\ rc \in {<< 4, 4 >>, << 5, 4 >>}
                   /\ IsLookup(wb[i].cells[rc].value)

\* C12 (amended): main() reports an issue and exits non-zero when the
\* Portfolio header cell of arr_gr or nrr no longer holds that name, or when
\* WatchList D4 or D5 no longer starts with "="; a lookup whose index or
\* range was rewritten but which is still a formula goes unnoticed: the
\* workbook, otherwise as generated, passes with exit code 0.
C12_DetectedByHeadersOrPresence ==
    RanOnContract =>
        /\ (\E w \in WatchLookups :
               LET pos == CHOOSE i \in 1..21 : HeaderNames[i] = w[3]
               IN GetCell(Sheet(wb, "Portfolio"), 1, pos).value # VStr(w[3]))
           => (exit_code = 1 /\ header_mismatches # << >>)
        /\ (\E w \in WatchLookups : ~HoldsFormula(<< "WatchList", w[1], 4 >>))
           => (exit_code = 1 /\ formula_failures # << >>)
        /\ OnlyLookupsRewritten
           => (exit_code = 0 /\ Len(header_mismatches) + Len(formula_failures) = 0)

C12_Witness ==
    RanOnContract /\ BrokenLookups # {} /\ OnlyLookupsRewritten /\ exit_code = 0

\* C13 (as claimed): the generator has saved the file exactly once when its
\* main() is done, and a complete run of the validator's main() has loaded
\* the workbook file exactly once.
C13_OneSaveOneLoad ==
    /\ gen_pc = "done" => saves = 1
    /\ gen_pc # "done" => saves = 0
    /\ RanToSummary => loads = 1

\* the numbers a user may type into a probability cell
OtherProbabilities == { VInt(0), VInt(100), VFloat(12, 50) }

\* what main() found and how it left: << total issues, exit code >>
Observed ==
    << Len(missing_sheets) + Len(header_mismatches) + Len(formula_failures)
         + error_count, exit_code >>

\* the stored workbook differs from `book` at most in the numbers of
\* MacroScenarios K2:K7
SameButProbabilities(book) ==
    /\ sheetnames(File) = sheetnames(book)
    /\ \A i \in 1..Len(File) :
          /\ [File[i] EXCEPT !.cells = << >>] = [book[i] EXCEPT !.cells = << >>]
          /\ DOMAIN File[i].cells = DOMAIN book[i].cells
          /\ \A rc \in DOMAIN File[i].cells :
                \/ File[i].cells[rc] = book[i].cells[rc]
                \/ /\ File[i].title = "MacroScenarios"
                   /\ rc[2] = 11 /\ rc[1] \in 2..7
                   /\ File[i].cells[rc].value.t \in {"int", "float"}
                   /\ book[i].cells[rc].value.t \in {"int", "float"}
                   /\ [File[i].cells[rc] EXCEPT !.value = VNone]
                        = [book[i].cells[rc] EXCEPT !.value = VNone]

\* C14: the validator's issue count and exit code do not depend on the
\* numbers in MacroScenarios K2:K7: a run on a workbook that differs from
\* the generated one only in such a number ends as main() ends on the
\* generated one, and a run on the generated one ends as main() ends on it
\* with any K2:K7 cell set to another number, whether or not the
\* probabilities still sum to 100.
C14_OutcomeIgnoresProbabilities ==
    (RanToSummary /\ gen_pc = "done" /\ SameButProbabilities(gen_wb)) =>
        /\ Observed = main_outcome(gen_wb)
        /\ File = gen_wb =>
              \A r \in 2..7, v \in OtherProbabilities :
                  main_outcome(WithValue(File, "MacroScenarios", r, 11, v)) = Observed

C14_Witness ==
    /\ RanToSummary /\ gen_pc = "done" /\ SameButProbabilities(gen_wb)
    /\ GetCell(Macro, 2, 11).value = VInt(0)
    /\ Observed = << 0, 0 >>

\* C15: no step of the validator (a step that changes anything main() or
\* verify_workbook holds: position, loaded workbook, results, output, exit
\* code) changes a file, whether the run passes, fails or finds no file; and
\* the path the validator reads is the path the generator writes.
C15_ValidatorReadsOnly ==
    /\ [](WORKBOOK_PATH = out_path)
    /\ [][val_vars' # val_vars => fs' = fs]_vars

C15_Witness ==
    /\ val_pc = "exited" /\ loads = 2 /\ exit_code = 1
    /\ File = fs[out_path] /\ File # NoFile /\ File # gen_wb

\* the data cells of a workbook, as <<sheet index, <<row, column>>>>: cells
\* with content, outside the Instructions sheet, that are not styled as a
\* header or section title (grey 7A776F text on the 131820 background)
DataCells(book) ==
    UNION { { << i, rc >> :
                rc \in {x \in DOMAIN book[i].cells :
                           /\ book[i].cells[x].value # VNone
                           /\ ~(/\ book[i].cells[x].font = "7A776F"
                                /\ book[i].cells[x].fill = "131820")} }
            : i \in {j \in 1..Len(book) : book[j].title # "Instructions"} }

\* C16 (as claimed): in the generated workbook every data cell has green
\* 2ECC8A font exactly when it holds a formula, every data cell that holds no
\* formula has blue 4A8BD4 font, and a hardcoded BREACH cell has red E05555
\* fill.
C16_ColourConvention ==
    Pristine =>
        \A d \in DataCells(File) :
            LET cell == File[d[1]].cells[d[2]]
            IN /\ cell.font = "2ECC8A" <=> IsFormulaCell(cell.value)
               /\ ~IsFormulaCell(cell.value) => cell.font = "4A8BD4"
               /\ cell.value = VStr("BREACH") => cell.fill = "E05555"

\* the data cells that hold no formula and are not blue, with their styling:
\* << sheet, <<row, column>>, font, fill >>
NotBlue ==
    { << "WatchList", << 2, 5 >>, "FFFFFF", "E05555" >>,      \* BREACH
      << "WatchList", << 3, 5 >>, "E8622A", "0D1014" >>,      \* WARNING
      << "MacroScenarios", << 8, 1 >>, "E05555", "131820" >> } \* the sum note

\* C16 (amended): in the generated workbook every data cell has green font
\* exactly when it holds a formula, and every data cell that holds no
\* formula has blue font except three: the hardcoded WatchList status cells
\* E2 (BREACH, white on red E05555 fill) and E3 (WARNING, orange E8622A
\* font) and the MacroScenarios note A8 (red font); a hardcoded BREACH cell
\* has red fill.
C16_ColourConventionButStatus ==
    Pristine =>
        /\ \A d \in DataCells(File) :
              LET cell == File[d[1]].cells[d[2]]
              IN /\ cell.font = "2ECC8A" <=> IsFormulaCell(cell.value)
                 /\ ~IsFormulaCell(cell.value) =>
                       \/ cell.font = "4A8BD4"
                       \/ << File[d[1]].title, d[2], cell.font, cell.fill >> \in NotBlue
                 /\ cell.value = VStr("BREACH") => cell.fill = "E05555"
        /\ \A n \in NotBlue :
              \E d \in DataCells(File) :
                  /\ File[d[1]].title = n[1] /\ d[2] = n[2]
                  /\ File[d[1]].cells[d[2]].font = n[3]
                  /\ File[d[1]].cells[d[2]].fill = n[4]

C16_Witness ==
    /\ Pristine
    /\ GetCell(Sheet(File, "WatchList"), 2, 5)
         = [value |-> VStr("BREACH"), font |-> "FFFFFF", fill |-> "E05555"]
    /\ GetCell(Sheet(File, "WatchList"), 4, 5).font = "2ECC8A"
    /\ Cardinality(DataCells(File)) > 100

RECURSIVE Unanchored(_)
\* a cell reference without its "$" anchors
Unanchored(s) ==
    IF s = "" THEN ""
    ELSE (IF SubSeq(s, 1, 1) = "$" THEN "" ELSE SubSeq(s, 1, 1))
         \o Unanchored(SubSeq(s, 2, Len(s)))

\* the cell a reference such as B$3 or E11 names: [col, row]
CellRef(s) ==
    LET u == Unanchored(s)
    IN [col |-> LetterColumn(SubSeq(u, 1, 1)), row |-> NumberOf(SubSeq(u, 2, Len(u)))]

\* the range of a formula whose first function call is FN(X..:Y..):
\* [col, from, to, last_col]
RangeOf(f, fn) ==
    LET t == Before(After(f, fn \o "("), ")")
        a == CellRef(Before(t, ":"))
        b == CellRef(After(t, ":"))
    IN [col |-> a.col, from |-> a.row, to |-> b.row, last_col |-> b.col]

\* a cell whose content is exactly =SUM(range)
IsSum(v) ==
    /\ v.t = "str" /\ Find(v.s, "=SUM(") = 1
    /\ Find(v.s, ")") = Len(v.s) /\ Find(v.s, ":") > 0

\* a cell whose content is exactly =<cell reference>
IsRef(v) ==
    /\ v.t = "str" /\ Len(v.s) >= 3 /\ SubSeq(v.s, 1, 1) = "="
    /\ CellRef(SubSeq(v.s, 2, Len(v.s))).col > 0
    /\ CellRef(SubSeq(v.s, 2, Len(v.s))).row > 0

\* the number a hardcoded cell holds, in hundredths (0 for text and blanks,
\* as SUM counts them)
Hundredths(v) ==
    CASE v.t = "int" -> 100 * v.n
      [] v.t = "float" -> v.h
      [] OTHER -> 0

\* SUM over the hardcoded cells of rows a..b of one column, in hundredths
ColumnSum(ws, col, a, b) ==
    SumOf([r \in a..b |-> Hundredths(GetCell(ws, r, col).value)], a..b)

\* the value of a =SUM(range) cell over hardcoded cells, in hundredths
SumValue(ws, v) ==
    ColumnSum(ws, RangeOf(v.s, "SUM").col, RangeOf(v.s, "SUM").from,
              RangeOf(v.s, "SUM").to)

\* the CapitalCalls sheet of the stored workbook
Calls == Sheet(File, "CapitalCalls")

\* the rows of a sheet that hold a hardcoded number in a column
NumberRows(ws, col) ==
    {rc[1] : rc \in {x \in DOMAIN ws.cells :
                        x[2] = col /\ ws.cells[x].value.t \in {"int", "float"}}}

\* C17: in the generated CapitalCalls sheet the data rows are 3..11; in each
\* of them cumulative_calls is the sum of calls_m over rows 3..r and
\* cumulative_dist the sum of dist_m over rows 3..r, both non-decreasing down
\* the rows; the summary row's cumulative cells refer to the last data row
\* and so equal the summary row's SUM of calls_m and of dist_m.
C17_CumulativeSums ==
    Pristine =>
        LET rows == NumberRows(Calls, 2)
            last == 11
            SUMR == CHOOSE r \in 1..20 : GetCell(Calls, r, 1).value = VStr("TOTAL")
            cum(r, c) == SumValue(Calls, GetCell(Calls, r, c).value)
        IN /\ rows = 3..11 /\ NumberRows(Calls, 3) = 3..11
           /\ SUMR > last
           /\ \A r \in rows : \A c \in {5, 6} :
                 LET v == GetCell(Calls, r, c).value
                 IN /\ IsSum(v)
                    /\ RangeOf(v.s, "SUM")
                         = [col |-> c - 3, from |-> 3, to |-> r, last_col |-> c - 3]
                    /\ cum(r, c) = ColumnSum(Calls, c - 3, 3, r)
                    /\ r > 3 => cum(r - 1, c) <= cum(r, c)
           /\ \A c \in {5, 6} :
                 LET v == GetCell(Calls, SUMR, c).value
                     total == GetCell(Calls, SUMR, c - 3).value
                 IN /\ IsRef(v)
                    /\ CellRef(SubSeq(v.s, 2, Len(v.s))) = [col |-> c, row |-> last]
                    /\ IsSum(total)
                    /\ RangeOf(total.s, "SUM")
                         = [col |-> c - 3, from |-> 3, to |-> last, last_col |-> c - 3]
                    /\ cum(last, c) = SumValue(Calls, total)

C17_Witness ==
    /\ Pristine
    /\ SumValue(Calls, GetCell(Calls, 11, 5).value) = 28400
    /\ SumValue(Calls, GetCell(Calls, 11, 6).value) = 3700
    /\ GetCell(Calls, 13, 5).value = VStr("=E11")

\* a formula cell that sums or averages a range
HasRange(v) ==
    IsFormulaCell(v) /\ (Find(v.s, "SUM(") > 0 \/ Find(v.s, "AVERAGE(") > 0)

\* the range such a formula sums or averages: [col, from, to, last_col]
RangeIn(v) ==
    RangeOf(v.s, IF Find(v.s, "AVERAGE(") > 0 THEN "AVERAGE" ELSE "SUM")

\* a row of hardcoded data: its first cell is an input cell (blue font)
IsDataRow(ws, r) ==
    GetCell(ws, r, 1).value # VNone /\ GetCell(ws, r, 1).font = "4A8BD4"

\* the data rows of the table a formula in row q belongs to: the unbroken
\* run of data rows that holds q or, for a summary row, that ends above q
TableRows(ws, q) ==
    LET below == {r \in 1..q : IsDataRow(ws, r)}
        last == CHOOSE r \in below : \A x \in below : x <= r
        after == {r \in (q + 1)..(q + 30) :
                     \A x \in (q + 1)..r : IsDataRow(ws, x)}
    IN IF below = {} THEN {}
       ELSE {r \in 1..last : \A x \in r..last : IsDataRow(ws, x)}
            \cup (IF IsDataRow(ws, q) THEN after ELSE {})

\* the cells of a workbook that sum or average a range: <<sheet index, <<r, c>>>>
RangeCells(book) ==
    UNION { { << i, rc >> :
                rc \in {x \in DOMAIN book[i].cells : HasRange(book[i].cells[x].value)} }
            : i \in 1..Len(book) }

\* the range of the cell d of the stored workbook spans exactly the data
\* rows of its table, in one column
CoversTable(d) ==
    LET ws == File[d[1]]
        g == RangeIn(ws.cells[d[2]].value)
        rows == TableRows(ws, d[2][1])
    IN /\ rows # {} /\ g.col = g.last_col /\ g.col >= 1
       /\ g.from..g.to = rows

\* the range of the cell d does not contain d
OutsideOwnRange(d) ==
    LET g == RangeIn(File[d[1]].cells[d[2]].value)
    IN ~(d[2][2] = g.col /\ d[2][1] \in g.from..g.to)

\* the sheets that have a summary or total row
SummarySheets ==
    {"Portfolio", "LPs", "ExitPipeline", "MacroScenarios", "CapitalCalls", "Benchmarks"}

\* C18 (as claimed): every SUM/AVERAGE range of the generated workbook
\* spans exactly the data rows of its table, the summary row lies below the
\* last data row, and no range contains its own cell.
C18_RangesCoverTables ==
    JustGenerated =>
        /\ {File[d[1]].title : d \in RangeCells(File)} = SummarySheets
        /\ \A d \in RangeCells(File) :
              /\ CoversTable(d)
              /\ OutsideOwnRange(d)
              /\ ~IsDataRow(File[d[1]], d[2][1]) =>
                    \A r \in TableRows(File[d[1]], d[2][1]) : r < d[2][1]

\* a running sum of CapitalCalls: column E or F of a data row
IsRunningSum(d) ==
    /\ File[d[1]].title = "CapitalCalls"
    /\ d[2][2] \in {5, 6}
    /\ IsDataRow(File[d[1]], d[2][1])

\* the range of the running sum d runs from the first data row of its table
\* to d's own row, in another column
CoversTableSoFar(d) ==
    LET ws == File[d[1]]
        g == RangeIn(ws.cells[d[2]].value)
        rows == TableRows(ws, d[2][1])
    IN /\ rows # {} /\ g.col = g.last_col /\ g.col = d[2][2] - 3
       /\ g.from..g.to = {r \in rows : r <= d[2][1]}

\* the character of s at position i ("" outside s)
CharAt(s, i) == IF i \in 1..Len(s) THEN SubSeq(s, i, i) ELSE ""

IsDigitChar(ch) == \E d \in 0..9 : Digit(d) = ch
IsLetterChar(ch) ==
    \E j \in 1..26 : ch \in {SubSeq(UpperChars, j, j), SubSeq(LowerChars, j, j)}

\* the cells of its own sheet a formula names one by one (B5, $D$2, E11),
\* as <<row, column>>: a capital letter that does not continue a word,
\* an optional "$", then digits
NamedCells(f) ==
    LET starts == {i \in 1..Len(f) :
                      /\ LetterColumn(CharAt(f, i)) > 0
                      /\ ~IsLetterChar(CharAt(f, i - 1))
                      /\ IsDigitChar(CharAt(f, IF CharAt(f, i + 1) = "$"
                                               THEN i + 2 ELSE i + 1))}
        digits(i) == IF CharAt(f, i + 1) = "$" THEN i + 2 ELSE i + 1
        stop(i) == CHOOSE j \in digits(i)..Len(f) :
                       /\ \A x \in digits(i)..j : IsDigitChar(CharAt(f, x))
                       /\ ~IsDigitChar(CharAt(f, j + 1))
    IN { << NumberOf(SubSeq(f, digits(i), stop(i))), LetterColumn(CharAt(f, i)) >> :
            i \in starts }

\* the cells a formula cell of sheet i reads: <<sheet index, <<row, column>>>>
Reads(book, i, v) ==
    { << i, rc >> : rc \in NamedCells(v.s) }
    \cup (IF HasRange(v)
          THEN { << i, << r, RangeIn(v).col >> >> : r \in RangeIn(v).from..RangeIn(v).to }
          ELSE {})
    \cup (IF IsLookup(v)
          THEN UNION { { << j, rc >> :
                           rc \in {x \in DOMAIN book[j].cells :
                                      x[2] \in Lookup(v.s).first..Lookup(v.s).last} }
                       : j \in {k \in 1..Len(book) : book[k].title = Lookup(v.s).sheet} }
          ELSE {})

\* the formula cells of a workbook: <<sheet index, <<row, column>>>>
FormulaNodes(book) ==
    UNION { { << i, rc >> :
                rc \in {x \in DOMAIN book[i].cells : IsFormulaCell(book[i].cells[x].value)} }
            : i \in 1..Len(book) }

RECURSIVE Computable(_, _, _)
\* the formula cells that can be computed once those of `done` are: the
\* least fixed point is every formula cell exactly when no formula depends
\* on itself, directly or through others
Computable(nodes, reads, done) ==
    LET next == {d \in nodes : reads[d] \subseteq done}
    IN IF next = done THEN done ELSE Computable(nodes, reads, next)

\* the formulas of a workbook depend on each other without a cycle
Acyclic(book) ==
    LET nodes == FormulaNodes(book)
        reads == [d \in nodes |->
                     Reads(book, d[1], book[d[1]].cells[d[2]].value) \cap nodes]
    IN Computable(nodes, reads, {}) = nodes

\* C18 (amended): every SUM/AVERAGE range of the generated workbook spans
\* exactly the data rows of its table, except the running sums of
\* CapitalCalls columns E and F, which span the data rows down to their own
\* row; each summary row lies below its last data row, no range contains
\* its own cell, and the formulas of the workbook depend on each other
\* without a cycle.
C18_RangesCoverTablesButRunningSums ==
    JustGenerated =>
        /\ {File[d[1]].title : d \in RangeCells(File)} = SummarySheets
        /\ \A d \in RangeCells(File) :
              /\ IF IsRunningSum(d) THEN CoversTableSoFar(d) ELSE CoversTable(d)
              /\ OutsideOwnRange(d)
              /\ ~IsDataRow(File[d[1]], d[2][1]) =>
                    \A r \in TableRows(File[d[1]], d[2][1]) : r < d[2][1]
        /\ Acyclic(File)

C18_Witness ==
    /\ JustGenerated
    /\ \E d \in RangeCells(File) : IsRunningSum(d) /\ ~CoversTable(d)
    /\ \E d \in RangeCells(File) :
          /\ File[d[1]].title = "Portfolio" /\ d[2][1] = 2
          /\ RangeIn(File[d[1]].cells[d[2]].value).to = 11
    /\ Cardinality(FormulaNodes(File)) > 50

RECURSIVE Items(_)
\* the items of a comma-separated list
Items(s) ==
    IF Find(s, ",") = 0 THEN {s}
    ELSE {Before(s, ",")} \cup Items(After(s, ","))

\* the values a list validation allows: its formula1 is a quoted,
\* comma-separated list
Allowed(dv) == Items(SubSeq(dv.formula1, 2, Len(dv.formula1) - 1))

\* the list validations of a workbook: <<sheet index, validation index>>
ListValidations(book) ==
    UNION { { << i, k >> : k \in {x \in 1..Len(book[i].validations) :
                                     book[i].validations[x].type = "list"} }
            : i \in 1..Len(book) }

\* the columns that carry a list validation: <<sheet, column>>
DropdownColumns ==
    { << "Portfolio", 16 >>, << "Portfolio", 14 >>, << "ExitPipeline", 2 >>,
      << "Pipeline", 3 >>, << "Pipeline", 8 >> }

\* C19: in the generated workbook the list validations are those of
\* Portfolio status and stage, ExitPipeline type, Pipeline stage and
\* confidence; each covers exactly the data rows of its table in one column,
\* and every hardcoded value of that column is one of the allowed items.
C19_DropdownsCoverData ==
    JustGenerated =>
        /\ { << File[d[1]].title,
                CellRef(Before(File[d[1]].validations[d[2]].sqref, ":")).col >> :
                d \in ListValidations(File) } = DropdownColumns
        /\ Cardinality(ListValidations(File)) = Cardinality(DropdownColumns)
        /\ \A d \in ListValidations(File) :
              LET ws == File[d[1]]
                  dv == ws.validations[d[2]]
                  a == CellRef(Before(dv.sqref, ":"))
                  b == CellRef(After(dv.sqref, ":"))
              IN /\ SubSeq(dv.formula1, 1, 1) = "\""
                 /\ SubSeq(dv.formula1, Len(dv.formula1), Len(dv.formula1)) = "\""
                 /\ a.col = b.col /\ a.col >= 1
                 /\ a.row..b.row = TableRows(ws, a.row)
                 /\ a.row..b.row = {rc[1] : rc \in {x \in DOMAIN ws.cells :
                                        x[2] = a.col /\ IsDataRow(ws, x[1])}}
                 /\ \A r \in a.row..b.row :
                       /\ GetCell(ws, r, a.col).value.t = "str"
                       /\ GetCell(ws, r, a.col).value.s \in Allowed(dv)

C19_Witness ==
    /\ JustGenerated
    /\ \E d \in ListValidations(File) :
          /\ File[d[1]].title = "Pipeline"
          /\ File[d[1]].validations[d[2]].sqref = "H2:H13"
          /\ Allowed(File[d[1]].validations[d[2]]) = {"High", "Medium", "Low"}
    /\ GetCell(Sheet(File, "Portfolio"), 4, 16).value = VStr("High Growth")

\* a formula cell that divides under an IFERROR guard
IsGuardedDivision(v) ==
    IsFormulaCell(v) /\ Find(v.s, "IFERROR(") > 0 /\ Find(v.s, "/") > 0

\* the text of the denominator of such a formula: SUM(range), a cell
\* reference or a number
DenominatorText(f) ==
    LET d == After(f, "/")
    IN IF Find(d, "SUM(") = 1 THEN Before(d, ")") \o ")"
       ELSE Before(Before(Before(d, ","), "*"), ")")

\* the denominator is present and not zero: a positive constant, a SUM over
\* hardcoded cells that is not zero, or a cell holding a number that is not
\* zero
DenominatorNonZero(ws, f) ==
    LET d == DenominatorText(f)
    IN IF Find(d, "SUM(") = 1
       THEN ColumnSum(ws, RangeOf(d, "SUM").col, RangeOf(d, "SUM").from,
                      RangeOf(d, "SUM").to) # 0
       ELSE IF NumberOf(d) >= 0 THEN NumberOf(d) # 0
       ELSE /\ CellRef(d).col > 0 /\ CellRef(d).row > 0
            /\ GetCell(ws, CellRef(d).row, CellRef(d).col).value.t \in {"int", "float"}
            /\ Hundredths(GetCell(ws, CellRef(d).row, CellRef(d).col).value) # 0

\* the numerator is a cell that holds a number or a plain SUM
NumeratorIsNumber(ws, f) ==
    LET n == CellRef(Before(After(f, "IFERROR("), "/"))
    IN /\ n.col > 0 /\ n.row > 0
       /\ \/ GetCell(ws, n.row, n.col).value.t \in {"int", "float"}
          \/ IsSum(GetCell(ws, n.row, n.col).value)

\* the guarded divisions of a workbook: <<sheet index, <<row, column>>>>
GuardedDivisions(book) ==
    UNION { { << i, rc >> :
                rc \in {x \in DOMAIN book[i].cells :
                           IsGuardedDivision(book[i].cells[x].value)} }
            : i \in 1..Len(book) }

\* the ratio columns: <<sheet, column>> of nav_pct, ev_arr, ev_arr, DPI
RatioColumns ==
    { << "Portfolio", 5 >>, << "Portfolio", 10 >>, << "Pipeline", 7 >>,
      << "CapitalCalls", 7 >> }

\* C20: in the generated workbook the IFERROR-guarded divisions are the
\* Portfolio nav_pct and ev_arr, Pipeline ev_arr and CapitalCalls DPI cells;
\* in each the numerator is a number and the denominator (arr, the sum of
\* nav, arr_m, the constant 431) is present and not zero, so the division
\* does not fail and the IFERROR does not take its fallback.
C20_DivisionsNeverFallBack ==
    JustGenerated =>
        /\ { << File[d[1]].title, d[2][2] >> : d \in GuardedDivisions(File) }
             = RatioColumns
        /\ \A d \in GuardedDivisions(File) :
              /\ DenominatorNonZero(File[d[1]], File[d[1]].cells[d[2]].value.s)
              /\ NumeratorIsNumber(File[d[1]], File[d[1]].cells[d[2]].value.s)
              /\ IsDataRow(File[d[1]], d[2][1])
        /\ \A t \in RatioColumns : \A r \in 1..20 :
              IsDataRow(Sheet(File, t[1]), r) =>
                  IsGuardedDivision(GetCell(Sheet(File, t[1]), r, t[2]).value)

C20_Witness ==
    /\ JustGenerated
    /\ DenominatorText(GetCell(Sheet(File, "Portfolio"), 2, 5).value.s)
         = "SUM($D$2:$D$11)"
    /\ DenominatorText(GetCell(Sheet(File, "Portfolio"), 2, 10).value.s) = "B2"
    /\ DenominatorText(GetCell(Sheet(File, "Pipeline"), 13, 7).value.s) = "D13"
    /\ DenominatorText(GetCell(Sheet(File, "CapitalCalls"), 11, 7).value.s) = "431"
    /\ Cardinality(GuardedDivisions(File)) = 41

====
